---------------------------- MODULE Spec2Model ----------------------------
(***************************************************************************)
(* Verification model of the H5Coro range reader of sliderule              *)
(* (H5FileBuffer / H5Coro, kept in src/scripts/selftests/geojson_raster.lua *)
(* from line 67 on).                                                       *)
(*                                                                         *)
(* Part I models the ranged I/O cache (io_context_t, ioRequest,            *)
(* ioCheckCache) with several reader threads that share one context.      *)
(* Part II models the public read: H5Coro::read and the constructor of     *)
(* H5FileBuffer with the metadata repository, the descent along the        *)
(* dataset path and readDataset.                                           *)
(***************************************************************************)
EXTENDS Integers, Sequences, FiniteSets, TLC

(***************************************************************************)
(* Bounds of the model                                                     *)
(***************************************************************************)
\* number of bytes of the (unchanging) file the readers work on
FileSize == 4
\* largest size a caller asks ioRequest for
MaxSize == 2
\* number of buffers `new uint8_t[]` may hand out in one behaviour
MaxBufs == 3

(***************************************************************************)
(* Cache geometry (H5Coro.h, scaled: the spec calls the values tunable)    *)
(***************************************************************************)
IO_CACHE_L1_LINESIZE == 2
IO_CACHE_L2_LINESIZE == 4
IO_CACHE_L1_ENTRIES == 2
IO_CACHE_L2_ENTRIES == 1

Max(a, b) == IF a >= b THEN a ELSE b
Min(a, b) == IF a <= b THEN a ELSE b

ReaderIds == {1, 2}

\* the size hints callers pass: none, or a whole L2 line
Hints == {0, IO_CACHE_L2_LINESIZE}

\* byte value that stands for whatever a freed buffer may hold
Poison == 255

\* content of a file at an address that no data segment of the file covers
FileByte(a) == (7 * a + 3) % 251

\* a file is [size, segs]: segs lists the byte runs [at, bytes] the model
\* gives a meaning to; every other address holds FileByte
ByteAt(f, a) ==
    LET hit == {k \in DOMAIN f.segs :
                   f.segs[k].at <= a /\ a < f.segs[k].at + Len(f.segs[k].bytes)}
    IN  IF hit = {} THEN FileByte(a)
        ELSE LET k == CHOOSE k \in hit : TRUE
             IN  f.segs[k].bytes[a - f.segs[k].at + 1]

\* the file the readers of Part I work on
IOFile == [size |-> FileSize, segs |-> <<>>]

\* a backend read that fetches one byte more than it was asked for
BackendReadAhead(f, pos, n) ==
    LET got == Max(0, Min(n + 1, f.size - pos))
    IN  [i \in 1..got |-> ByteAt(f, pos + i - 1)]

\* what a positional backend read of n bytes at pos yields (fread/rangeGet)
BackendRead(f, pos, n) ==
    LET got == Max(0, Min(n, f.size - pos))
    IN  [i \in 1..got |-> ByteAt(f, pos + i - 1)]

NoEntry == [pos |-> 0, size |-> -1, data |-> 0]

VARIABLES
    ioContext,   \* [l1, l2, read_rqsts, bytes_read]; l1, l2 oldest entry first
    ctxLive,     \* the io_context_t has not been destroyed
    heap,        \* heap[b] = [st, data, frees] of buffer b, in allocation order
    readers,     \* the reader threads of this run
    pc,          \* pc[r]: where reader r is inside / around ioRequest
    rq,          \* rq[r] = [size, pos, hint] of the call in progress
    entry,       \* ioRequest's local cache_entry_t
    buffer,      \* ioRequest's local buffer pointer (0 = NULL) and offset
    res          \* what the caller copied out of the returned pointer

ioVars == <<ioContext, ctxLive, heap, readers, pc, rq, entry, buffer, res>>

(***************************************************************************)
(* Table<cache_entry_t, uint64_t> (Table.h is not part of the sources)     *)
(***************************************************************************)
\* ioHashL1 / ioHashL2: key & ~mask, the line-aligned address
ioHash(key, linesize) == key - (key % linesize)

TableSlot(key, linesize, entries) == (ioHash(key, linesize) \div linesize) % entries

TableIsFull(cache, entries) == Len(cache) >= entries

TableHas(cache, key) == \E i \in 1..Len(cache) : cache[i].pos = key

\* find(key, MATCH_NEAREST_UNDER): the entry of key's slot with the largest
\* key not above the one asked for
TableFindNearestUnder(cache, key, linesize, entries) ==
    LET cand == {i \in 1..Len(cache) :
                    /\ TableSlot(cache[i].pos, linesize, entries)
                         = TableSlot(key, linesize, entries)
                    /\ cache[i].pos <= key}
    IN  IF cand = {} THEN NoEntry
        ELSE cache[CHOOSE i \in cand : \A j \in cand : cache[j].pos <= cache[i].pos]

TableRemove(cache, key) ==
    SelectSeq(cache, LAMBDA e : e.pos # key)

\* add(key, entry): a key already present is either kept (add refuses) or
\* superseded, the new entry becoming the newest of the table; the choice
\* is the caller's parameter `supersede`
TableAdd(cache, e, supersede) ==
    IF TableHas(cache, e.pos)
    THEN IF supersede
         THEN Append(TableRemove(cache, e.pos), e)
         ELSE cache
    ELSE Append(cache, e)

(***************************************************************************)
(* ioCheckCache and the two critical sections of ioRequest, as functions   *)
(***************************************************************************)
Covers(e, size, pos) == pos >= e.pos /\ pos + size <= e.pos + e.size

\* ioCheckCache without the containment test of line 518
ioCheckCacheNoCover(size, pos, cache, linesize, entries) ==
    LET line_pos == ioHash(pos, linesize)
        first    == TableFindNearestUnder(cache, pos, linesize, entries)
    IN  IF first # NoEntry THEN first
        ELSE IF line_pos > 0
             THEN TableFindNearestUnder(cache, line_pos - 1, linesize, entries)
             ELSE NoEntry

\* the entry ioCheckCache leaves in *entry when it returns true, else NoEntry
ioCheckCache(size, pos, cache, linesize, entries) ==
    LET line_pos   == ioHash(pos, linesize)
        check_prev == line_pos > 0                 \* no rollover of line_pos - 1
        first      == TableFindNearestUnder(cache, pos, linesize, entries)
        found      == IF first # NoEntry THEN first
                      ELSE IF check_prev
                           THEN TableFindNearestUnder(cache, line_pos - 1, linesize, entries)
                           ELSE NoEntry
    IN  IF found # NoEntry /\ Covers(found, size, pos) THEN found ELSE NoEntry

\* first critical section of ioRequest: L1 is probed before L2
ioLookup(ctx, size, pos) ==
    LET h1 == ioCheckCache(size, pos, ctx.l1, IO_CACHE_L1_LINESIZE, IO_CACHE_L1_ENTRIES)
    IN  IF h1 # NoEntry THEN h1
        ELSE ioCheckCache(size, pos, ctx.l2, IO_CACHE_L2_LINESIZE, IO_CACHE_L2_ENTRIES)

\* delete [] of buffer b
Delete(hp, b) ==
    [hp EXCEPT ![b] = [@ EXCEPT !.st = "freed", !.frees = @ + 1]]

\* new uint8_t[n] filled by the backend with `data`
Alloc(hp, data) == Append(hp, [st |-> "live", data |-> data, frees |-> 0])

\* InsertInto forgetting the delete [] of line 482
InsertIntoNoFree(cache, entries, e, supersede) ==
    LET full == TableIsFull(cache, entries)
        room == IF full THEN TableRemove(cache, Head(cache).pos) ELSE cache
    IN  [cache |-> TableAdd(room, e, supersede), freed |-> {}]

\* InsertInto making room by removing the newest entry
InsertIntoNewest(cache, entries, e, supersede) ==
    LET full == TableIsFull(cache, entries)
        last == cache[Len(cache)]
        room == IF full THEN TableRemove(cache, last.pos) ELSE cache
    IN  [cache |-> TableAdd(room, e, supersede),
         freed |-> IF full THEN {last.data} ELSE {}]

\* lines 477-487: make room in the chosen cache, then add the entry
InsertInto(cache, entries, e, supersede) ==
    LET full == TableIsFull(cache, entries)
        room == IF full THEN TableRemove(cache, Head(cache).pos) ELSE cache
    IN  [cache |-> TableAdd(room, e, supersede),
         freed |-> IF full THEN {Head(cache).data} ELSE {}]

\* second critical section of ioRequest: select the cache, make room, add,
\* count; yields the new context and heap
ioInsert(ctx, hp, e, supersede) ==
    LET toL1 == e.size <= IO_CACHE_L1_LINESIZE
        r    == IF toL1
                THEN InsertInto(ctx.l1, IO_CACHE_L1_ENTRIES, e, supersede)
                ELSE InsertInto(ctx.l2, IO_CACHE_L2_ENTRIES, e, supersede)
        hp2  == IF r.freed = {} THEN hp
                ELSE Delete(hp, CHOOSE b \in r.freed : TRUE)
    IN  [ctx |-> [l1 |-> IF toL1 THEN r.cache ELSE ctx.l1,
                  l2 |-> IF toL1 THEN ctx.l2 ELSE r.cache,
                  read_rqsts |-> ctx.read_rqsts + 1,
                  bytes_read |-> ctx.bytes_read + e.size],
         heap |-> hp2]

\* the bytes a caller sees through pointer &buffer[off] for `size` bytes
ViewBytes(hp, b, off, size) ==
    [i \in 1..size |-> IF off + i \in DOMAIN hp[b].data
                       THEN hp[b].data[off + i] ELSE Poison]

\* what a call leaves with its caller: the bytes copied out, the exception
\* thrown ("" for none) and the advance of the caller's cursor *pos
NoRes == [ok |-> FALSE, size |-> 0, pos |-> 0, bytes |-> <<>>, hit |-> NoEntry,
          uaf |-> FALSE, threw |-> "", advance |-> 0]
Threw(what) == [NoRes EXCEPT !.threw = what]
NoRq  == [size |-> 0, pos |-> 0, hint |-> 0]
NullBuffer == [b |-> 0, off |-> 0, hit |-> FALSE]

(***************************************************************************)
(* Reader threads stepping through ioRequest                               *)
(***************************************************************************)
InFlight == Cardinality({r \in readers : pc[r] \in {"miss", "insert"}})

\* lines 430-451: entry of ioRequest and the probe under the mutex
ioRequestLookup(r) ==
    /\ r \in readers /\ pc[r] = "idle" /\ ctxLive
    /\ Len(heap) + InFlight < MaxBufs
    /\ \E size \in 0..MaxSize, pos \in 0..FileSize, hint \in Hints :
         LET e == ioLookup(ioContext, size, pos)
         IN  /\ rq' = [rq EXCEPT ![r] = [size |-> size, pos |-> pos, hint |-> hint]]
             /\ res' = [res EXCEPT ![r] = NoRes]
             /\ IF e # NoEntry
                THEN /\ buffer' = [buffer EXCEPT ![r] = [b |-> e.data, off |-> pos - e.pos,
                                                         hit |-> TRUE]]
                     /\ entry' = [entry EXCEPT ![r] = e]
                     /\ pc' = [pc EXCEPT ![r] = "ret"]
                ELSE /\ buffer' = [buffer EXCEPT ![r] = NullBuffer]
                     /\ entry' = [entry EXCEPT ![r] = NoEntry]
                     /\ pc' = [pc EXCEPT ![r] = "miss"]
    /\ UNCHANGED <<ioContext, ctxLive, heap, readers>>

\* ioRequestRead testing the size of the read only after the entry has been
\* added to its cache and counted
ioRequestReadInsertFirst(r) ==
    /\ r \in readers /\ pc[r] = "miss"
    /\ \E fault \in BOOLEAN :
         LET read_size == Max(rq[r].size, rq[r].hint)
             data      == IF fault THEN <<>> ELSE BackendRead(IOFile, rq[r].pos, read_size)
             b         == Len(heap) + 1
         IN  IF fault \/ Len(data) < rq[r].size
             THEN /\ pc' = [pc EXCEPT ![r] = "idle"]
                  /\ entry' = [entry EXCEPT ![r] = NoEntry]
                  /\ rq' = [rq EXCEPT ![r] = NoRq]
                  /\ res' = [res EXCEPT ![r] =
                               Threw(IF fault THEN "ioRead" ELSE "failed to read")]
                  /\ \E n \in {ioInsert(ioContext, Alloc(heap, data),
                                        [pos |-> rq[r].pos, size |-> Len(data), data |-> b],
                                        FALSE)} :
                        ioContext' = n.ctx /\ heap' = n.heap
             ELSE /\ pc' = [pc EXCEPT ![r] = "insert"]
                  /\ entry' = [entry EXCEPT ![r] =
                                 [pos |-> rq[r].pos, size |-> Len(data), data |-> b]]
                  /\ heap' = Alloc(heap, data)
                  /\ UNCHANGED <<ioContext, rq, res>>
    /\ UNCHANGED <<ctxLive, readers, buffer>>

\* lines 453-466: allocation and backend read outside the mutex; a short
\* read or a backend exception leaves ioRequest by throw, before line 502
\* advances *pos
ioRequestRead(r) ==
    /\ r \in readers /\ pc[r] = "miss"
    /\ \E fault \in BOOLEAN :
         LET read_size == Max(rq[r].size, rq[r].hint)
             data      == IF fault THEN <<>> ELSE BackendRead(IOFile, rq[r].pos, read_size)
             b         == Len(heap) + 1
         IN  /\ heap' = Alloc(heap, data)
             /\ IF fault \/ Len(data) < rq[r].size
                THEN /\ pc' = [pc EXCEPT ![r] = "idle"]
                     /\ entry' = [entry EXCEPT ![r] = NoEntry]
                     /\ rq' = [rq EXCEPT ![r] = NoRq]
                     /\ res' = [res EXCEPT ![r] =
                                  Threw(IF fault THEN "ioRead" ELSE "failed to read")]
                ELSE /\ pc' = [pc EXCEPT ![r] = "insert"]
                     /\ entry' = [entry EXCEPT ![r] =
                                    [pos |-> rq[r].pos, size |-> Len(data), data |-> b]]
                     /\ UNCHANGED <<rq, res>>
    /\ UNCHANGED <<ioContext, ctxLive, readers, buffer>>

\* lines 468-505: insertion under the mutex, then return of the pointer
ioRequestInsert(r) ==
    /\ r \in readers /\ pc[r] = "insert"
    /\ \E supersede \in BOOLEAN :
         LET n == ioInsert(ioContext, heap, entry[r], supersede)
         IN  /\ ioContext' = n.ctx
             /\ heap' = n.heap
    /\ buffer' = [buffer EXCEPT ![r] = [b |-> entry[r].data, off |-> 0, hit |-> FALSE]]
    /\ pc' = [pc EXCEPT ![r] = "ret"]
    /\ UNCHANGED <<ctxLive, readers, rq, entry, res>>

\* lines 496-505 and 546-552 (readByteArray) / 563-609 (readField): *pos is
\* advanced by size and the caller copies `size` bytes out of the returned
\* pointer.  Reading a freed buffer is
\* undefined: the bytes may still be there or may be anything.
readByteArray(r) ==
    /\ r \in readers /\ pc[r] = "ret"
    /\ LET b    == buffer[r].b
           seen == ViewBytes(heap, b, buffer[r].off, rq[r].size)
           outs == IF heap[b].st = "live" THEN {seen}
                   ELSE {seen, [i \in 1..rq[r].size |-> Poison]}
       IN  \E bytes \in outs :
             res' = [res EXCEPT ![r] = [ok |-> TRUE, size |-> rq[r].size,
                                        pos |-> rq[r].pos, bytes |-> bytes,
                                        hit |-> IF buffer[r].hit
                                                THEN entry[r] ELSE NoEntry,
                                        uaf |-> heap[b].st # "live" /\ rq[r].size > 0,
                                        threw |-> "", advance |-> rq[r].size]]
    /\ pc' = [pc EXCEPT ![r] = "idle"]
    /\ rq' = [rq EXCEPT ![r] = NoRq]
    /\ entry' = [entry EXCEPT ![r] = NoEntry]
    /\ buffer' = [buffer EXCEPT ![r] = NullBuffer]
    /\ UNCHANGED <<ioContext, ctxLive, heap, readers>>

\* lines 159-182: ~io_context_t frees the data of every entry of L1 and L2
RECURSIVE DeleteAll(_, _)
DeleteAll(hp, cache) ==
    IF cache = <<>> THEN hp
    ELSE DeleteAll(Delete(hp, Head(cache).data), Tail(cache))

ioContextDestroy ==
    /\ ctxLive
    /\ \A r \in readers : pc[r] = "idle"
    /\ heap' = DeleteAll(DeleteAll(heap, ioContext.l1), ioContext.l2)
    /\ ioContext' = [ioContext EXCEPT !.l1 = <<>>, !.l2 = <<>>]
    /\ ctxLive' = FALSE
    /\ UNCHANGED <<readers, pc, rq, entry, buffer, res>>

EmptyContext == [l1 |-> <<>>, l2 |-> <<>>, read_rqsts |-> 0, bytes_read |-> 0]

(***************************************************************************)
(* Part II: the public read                                                *)
(***************************************************************************)
\* largest start row and largest row count a caller passes
MaxRow == 2

\* H5Coro.h is not part of the sources; the sizes are scaled
ALL_ROWS == -1
MAX_NDIMS == 2
NUM_FILTERS == 7
DEFLATE_FILTER == 1
SHUFFLE_FILTER == 2
MAX_META_STORE == 2
MAX_META_FILENAME == 16
\* the hint ioRequest takes when the caller passes none
DefaultHint == IO_CACHE_L1_LINESIZE

\* H5_INVALID: the address of all ones
H5_INVALID(a) == a = -1

\* F of the value of v, v evaluated once
With(v, F(_)) == CHOOSE y \in {F(z) : z \in {v}} : TRUE

RECURSIVE Sum(_)
Sum(s) == IF s = <<>> THEN 0 ELSE Head(s) + Sum(Tail(s))

RECURSIVE Prod(_)
Prod(s) == IF s = <<>> THEN 1 ELSE Head(s) * Prod(Tail(s))

(***************************************************************************)
(* The HDF5 format as far as a file of the model uses it: what a writer    *)
(* puts into the file                                                      *)
(***************************************************************************)
\* SHUFFLE as the writer applies it: byte v of element e goes to plane v
Shuffle(raw, ts) ==
    LET n == Len(raw) \div ts
    IN  [k \in 1..Len(raw) |-> raw[((k - 1) % n) * ts + ((k - 1) \div n) + 1]]

\* DEFLATE as the writer applies it, reduced to a stream that names its
\* length and holds every byte changed
DeflateMagic == 120
Deflate(raw) == <<DeflateMagic, Len(raw)>> \o [k \in 1..Len(raw) |-> (raw[k] + 100) % 256]

Dataspace(dims) ==
    [type |-> "DATASPACE_MSG", version |-> 1, flags |-> 0,
     dimensionality |-> Len(dims), dims |-> dims]
Datatype(class, size) ==
    [type |-> "DATATYPE_MSG", version |-> 1, class |-> class, size |-> size]
FillValue(value) ==
    [type |-> "FILL_VALUE_MSG", version |-> 2, defined |-> TRUE,
     size |-> Len(value), value |-> value]
Contiguous(address, size) ==
    [type |-> "DATA_LAYOUT_MSG", version |-> 3, class |-> "CONTIGUOUS_LAYOUT",
     address |-> address, size |-> size]
Compact(address, size) ==
    [type |-> "DATA_LAYOUT_MSG", version |-> 3, class |-> "COMPACT_LAYOUT",
     address |-> address, size |-> size]
Chunked(address, chunk_dim, elementsize) ==
    [type |-> "DATA_LAYOUT_MSG", version |-> 3, class |-> "CHUNKED_LAYOUT",
     address |-> address, chunk_dim |-> chunk_dim, elementsize |-> elementsize]
Filter(ids) == [type |-> "FILTER_MSG", version |-> 1, filters |-> ids]
Link(link_type, name, addr) ==
    [type |-> "LINK_MSG", version |-> 1, link_type |-> link_type,
     name |-> name, addr |-> addr]
LinkInfo(heap_address) ==
    [type |-> "LINK_INFO_MSG", version |-> 0, heap_address |-> heap_address]
HeaderCont(offset) == [type |-> "HEADER_CONT_MSG", offset |-> offset]
SymbolTable(nodes) ==
    [type |-> "SYMBOL_TABLE_MSG", heap_signature_ok |-> TRUE, heap_version |-> 0,
     tree_signature_ok |-> TRUE, node_type |-> 0, nodes |-> nodes]
Attribute == [type |-> "ATTRIBUTE_MSG"]

ObjHdr(version, msgs) == [signature_ok |-> TRUE, version |-> version, msgs |-> msgs]
Symbol(name, addr, cache_type) == [name |-> name, addr |-> addr, cache_type |-> cache_type]
SymbolNode(symbols) == [signature_ok |-> TRUE, version |-> 1, reserved0 |-> 0,
                        symbols |-> symbols]
Key(chunk_size, slice) == [chunk_size |-> chunk_size, slice |-> slice, trailing_zero |-> 0]
Superblock(version, root) ==
    [signature_ok |-> TRUE, version |-> version, freespace_version |-> 0,
     roottable_version |-> 0, headermsg_version |-> 0,
     offsetsize |-> 8, lengthsize |-> 8, root |-> root]

(***************************************************************************)
(* The resources of the model                                              *)
(***************************************************************************)
\* the data the writer stored, row-major
DataC1 == <<11, 12, 13>>
DataD  == <<21, 22, 23, 24>>
DataK1 == <<31, 32, 33, 34, 35, 36>>
DataU1 == <<41, 42>>
DataT  == <<51, 52>>
DataTr == <<61, 62>>
DataB  == <<71, 72>>
DataM2 == <<81, 82, 83, 84, 85, 86, 87, 88>>
DataFl == <<91, 92>>
DataU2 == <<95, 96>>
FillU1 == <<99>>
FillU2 == <<77, 78>>
DataK4 == <<51, 52, 53, 54, 55, 56, 57, 58>>

\* file:///a/x.h5
FileA ==
    [size  |-> 40,
     super |-> Superblock(0, 100),
     segs  |-> << [at |-> 0,  bytes |-> DataC1],
                  [at |-> 4,  bytes |-> DataD],
                  [at |-> 12, bytes |-> Deflate(Shuffle(SubSeq(DataK1, 1, 4), 2))],
                  [at |-> 18, bytes |-> Deflate(Shuffle(SubSeq(DataK1, 5, 6) \o <<0, 0>>, 2))],
                  [at |-> 26, bytes |-> DataU1],
                  [at |-> 30, bytes |-> DataT],
                  [at |-> 39, bytes |-> DataTr] >>,
     objs  |->
        100 :> ObjHdr(2, << Attribute,
                            Link(0, "c1", 110),
                            Link(1, "s1", 110),
                            Link(64, "e1", 110),
                            Link(0, "k1", 120),
                            LinkInfo(300),
                            Link(0, "tr", 160),
                            HeaderCont(400) >>)
     @@ 110 :> ObjHdr(2, << Dataspace(<<3>>), Datatype("FIXED_POINT_TYPE", 1),
                            Contiguous(0, 3) >>)
     @@ 120 :> ObjHdr(2, << Dataspace(<<3>>), Datatype("FIXED_POINT_TYPE", 2),
                            Chunked(8, <<2>>, 2),
                            Filter(<<SHUFFLE_FILTER, DEFLATE_FILTER>>) >>)
     @@ 130 :> ObjHdr(1, << SymbolTable(<< << SymbolNode(<<Symbol("d", 140, 0)>>) >>,
                                           << SymbolNode(<<Symbol("t", 145, 0)>>) >> >>) >>)
     @@ 140 :> ObjHdr(1, << Dataspace(<<2, 2>>), Datatype("FIXED_POINT_TYPE", 1),
                            Contiguous(4, 4) >>)
     @@ 145 :> ObjHdr(1, << Dataspace(<<2>>), Datatype("FLOATING_POINT_TYPE", 1),
                            Compact(30, 2) >>)
     @@ 150 :> ObjHdr(2, << Dataspace(<<3>>), Datatype("FIXED_POINT_TYPE", 1),
                            FillValue(<<99>>), Chunked(24, <<2>>, 1) >>)
     @@ 160 :> ObjHdr(2, << Dataspace(<<2>>), Datatype("FIXED_POINT_TYPE", 1),
                            Contiguous(39, 2) >>)
     @@ 170 :> ObjHdr(2, << Dataspace(<<2>>), Datatype("FIXED_POINT_TYPE", 1),
                            Contiguous(0, 2), Filter(<<9>>) >>),
     heaps |->
        300 :> [signature_ok |-> TRUE, version |-> 0, io_filter_len |-> 0,
                curr_num_rows |-> 1,
                blocks |-> << [signature_ok |-> TRUE, version |-> 0,
                               msgs |-> <<Link(0, "g", 130)>>],
                              [signature_ok |-> TRUE, version |-> 0,
                               msgs |-> <<Link(0, "u1", 150)>>] >>],
     conts |->
        400 :> [signature_ok |-> TRUE, msgs |-> <<Link(0, "bf", 170)>>],
     btrees |->
        8 :> [signature_ok |-> TRUE, node_type |-> 1, level |-> 0,
              keys |-> <<Key(6, <<0>>), Key(6, <<2>>), Key(0, <<4>>)>>,
              children |-> <<12, 18>>]
     @@ 24 :> [signature_ok |-> TRUE, node_type |-> 1, level |-> 0,
               keys |-> <<Key(2, <<0>>), Key(0, <<2>>)>>,
               children |-> <<26>>]]

\* file:///b/x.h5: another file of the same name
FileB ==
    [size  |-> 8,
     super |-> Superblock(0, 100),
     segs  |-> << [at |-> 5, bytes |-> DataB] >>,
     objs  |->
        100 :> ObjHdr(2, << Link(0, "c1", 110) >>)
     @@ 110 :> ObjHdr(2, << Dataspace(<<2>>), Datatype("FIXED_POINT_TYPE", 1),
                            Contiguous(5, 2) >>),
     heaps |-> <<>>, conts |-> <<>>, btrees |-> <<>>]

\* s3://bkt/x.h5: a file with a version 2 superblock
FileS ==
    [size  |-> 8,
     super |-> Superblock(2, 100),
     segs  |-> <<>>,
     objs  |-> 100 :> ObjHdr(2, <<>>),
     heaps |-> <<>>, conts |-> <<>>, btrees |-> <<>>]

\* s3://bkt/m.h5: a two-dimensional dataset of 2-byte elements, a dataset
\* with a FLETCHER32 filter (id 3), a version 1 group whose only symbol is a
\* symbolic link, a chunked dataset whose first chunk was never written, and
\* a dataset of four rows in four chunks
FileM ==
    [size  |-> 32,
     super |-> Superblock(0, 100),
     segs  |-> << [at |-> 0,  bytes |-> DataM2],
                  [at |-> 8,  bytes |-> DataFl],
                  [at |-> 12, bytes |-> DataU2 \o <<0, 0>>],
                  [at |-> 16, bytes |-> DataK4] >>,
     objs  |->
        100 :> ObjHdr(2, << Link(0, "m2", 110), Link(0, "fl", 120),
                            Link(0, "h", 130), Link(0, "u2", 150),
                            Link(0, "k4", 160) >>)
     @@ 110 :> ObjHdr(2, << Dataspace(<<2, 2>>), Datatype("FIXED_POINT_TYPE", 2),
                            Contiguous(0, 8) >>)
     @@ 120 :> ObjHdr(2, << Dataspace(<<2>>), Datatype("FIXED_POINT_TYPE", 1),
                            Contiguous(8, 2), Filter(<<3>>) >>)
     @@ 130 :> ObjHdr(1, << SymbolTable(<< << SymbolNode(<<Symbol("sy", 110, 2)>>) >> >>) >>)
     @@ 150 :> ObjHdr(2, << Dataspace(<<3>>), Datatype("FIXED_POINT_TYPE", 2),
                            FillValue(FillU2), Chunked(20, <<2>>, 2) >>)
     @@ 160 :> ObjHdr(2, << Dataspace(<<4>>), Datatype("FIXED_POINT_TYPE", 2),
                            Chunked(24, <<1>>, 2) >>),
     heaps |-> <<>>, conts |-> <<>>,
     btrees |->
        20 :> [signature_ok |-> TRUE, node_type |-> 1, level |-> 0,
               keys |-> <<Key(4, <<2>>), Key(0, <<4>>)>>,
               children |-> <<12>>]
     @@ 24 :> [signature_ok |-> TRUE, node_type |-> 1, level |-> 0,
               keys |-> <<Key(2, <<0>>), Key(2, <<1>>), Key(2, <<2>>), Key(2, <<3>>),
                          Key(0, <<4>>)>>,
               children |-> <<16, 18, 20, 22>>]]

UrlA == [scheme |-> "file", resource |-> <<"a", "x.h5">>]
UrlB == [scheme |-> "file", resource |-> <<"b", "x.h5">>]
UrlN == [scheme |-> "file", resource |-> <<"a", "none.h5">>]
UrlS == [scheme |-> "s3", resource |-> <<"bkt", "x.h5">>]
UrlK == [scheme |-> "s3", resource |-> <<"x.h5">>]
UrlH == [scheme |-> "http", resource |-> <<"a", "x.h5">>]
UrlM == [scheme |-> "s3", resource |-> <<"bkt", "m.h5">>]
Urls == {UrlA, UrlB, UrlN, UrlS, UrlK, UrlH, UrlM}

\* what the resource holds; size -1: nothing there
NoFile == [size |-> -1]
Store(url) ==
    IF url = UrlA THEN FileA
    ELSE IF url = UrlB THEN FileB
    ELSE IF url = UrlS THEN FileS
    ELSE IF url = UrlM THEN FileM
    ELSE NoFile

\* the dataset names callers ask for, as the components between the '/'
Paths == { <<"c1">>, <<"k1">>, <<"u1">>, <<"g", "d">>, <<"g", "t">>, <<"tr">>,
           <<"c1", "extra">>, <<"nope">>, <<"s1">>, <<"e1">>, <<"bf">>,
           <<"overlong_name">> }

\* the dataset names callers ask of s3://bkt/m.h5
PathsM == { <<"m2">>, <<"fl">>, <<"h", "sy">>, <<"u2">>, <<"k4">> }

\* strlen of a name
NameLen(n) ==
    IF n = "overlong_name" THEN 13
    ELSE IF n = "none.h5" THEN 7
    ELSE IF n = "extra" THEN 5
    ELSE IF n \in {"x.h5", "nope", "m.h5"} THEN 4
    ELSE IF n \in {"g", "d", "t", "h"} THEN 1
    ELSE 2

\* the 8-byte words of a name, added up
NameCode(n) ==
    IF n = "x.h5" THEN 64
    ELSE IF n = "c1" THEN 3
    ELSE IF n = "g" THEN 1
    ELSE IF n = "d" THEN 2
    ELSE IF n = "t" THEN 4
    ELSE IF n = "k1" THEN 8
    ELSE IF n = "u1" THEN 16
    ELSE IF n = "tr" THEN 32
    ELSE IF n = "extra" THEN 128
    ELSE IF n = "m.h5" THEN 512
    ELSE IF n = "m2" THEN 1024
    ELSE IF n = "fl" THEN 2048
    ELSE IF n = "h" THEN 4096
    ELSE IF n = "sy" THEN 8192
    ELSE IF n = "u2" THEN 16384
    ELSE IF n = "e1" THEN 32768
    ELSE IF n = "k4" THEN 65536
    ELSE 256

\* the datasets the writer stored, and their data
Stored ==
    { [url |-> UrlA, dataset |-> <<"c1">>, dims |-> <<3>>, typesize |-> 1, data |-> DataC1],
      [url |-> UrlA, dataset |-> <<"k1">>, dims |-> <<3>>, typesize |-> 2, data |-> DataK1],
      [url |-> UrlA, dataset |-> <<"g", "d">>, dims |-> <<2, 2>>, typesize |-> 1, data |-> DataD],
      [url |-> UrlA, dataset |-> <<"g", "t">>, dims |-> <<2>>, typesize |-> 1, data |-> DataT],
      [url |-> UrlB, dataset |-> <<"c1">>, dims |-> <<2>>, typesize |-> 1, data |-> DataB],
      [url |-> UrlM, dataset |-> <<"m2">>, dims |-> <<2, 2>>, typesize |-> 2, data |-> DataM2],
      [url |-> UrlM, dataset |-> <<"k4">>, dims |-> <<4>>, typesize |-> 2, data |-> DataK4] }

(***************************************************************************)
(* Driver, resource and the url of the metadata repository                 *)
(***************************************************************************)
\* lines 2717-2745
parseUrl(url) ==
    IF url.scheme = "file" THEN "FILE"
    ELSE IF url.scheme = "s3" THEN "S3"
    ELSE "UNKNOWN"

\* lines 336-365: the error ioOpen throws, "" when the resource is open
ioOpen(url) ==
    IF parseUrl(url) = "FILE"
    THEN IF Store(url) = NoFile THEN "failed to open resource" ELSE ""
    ELSE IF Len(url.resource) < 2 THEN "invalid S3 url" ELSE ""

\* lines 2683-2712: the dataset name split at '/'
parseDataset(dataset) == dataset

\* strlen of "<file name>/<dataset name>"
MetaUrlLen(url, dataset) ==
    NameLen(url.resource[Len(url.resource)]) + 1
    + Sum([i \in 1..Len(dataset) |-> NameLen(dataset[i])]) + (Len(dataset) - 1)

\* lines 2887-2915: the file name behind the last '/' of the resource, then
\* the dataset name; the buffer keeps two terminators
metaGetUrl(url, dataset) ==
    [fits |-> MetaUrlLen(url, dataset) <= MAX_META_FILENAME - 2,
     url  |-> <<url.resource[Len(url.resource)]>> \o dataset]

\* lines 2872-2882: the sum of the 8-byte words of the url buffer
metaGetKey(meta_url) == Sum([i \in 1..Len(meta_url) |-> NameCode(meta_url[i])])

(***************************************************************************)
(* meta_repo_t, a Table<meta_entry_t, uint64_t> (Table.h is not part of    *)
(* the sources); oldest entry first.  Every entry also remembers the url   *)
(* whose file it was parsed from.                                          *)
(***************************************************************************)
NoMeta == [key |-> -1]

metaFind(repo, key) ==
    IF \E i \in 1..Len(repo) : repo[i].key = key
    THEN repo[CHOOSE i \in 1..Len(repo) : repo[i].key = key]
    ELSE NoMeta

metaIsFull(repo) == Len(repo) >= MAX_META_STORE

metaRemove(repo, key) == SelectSeq(repo, LAMBDA e : e.key # key)

\* add(key, entry, true): an entry of that key is overwritten, where it is
\* (renew = FALSE) or as the newest entry (renew = TRUE)
metaAdd(repo, e, renew) ==
    IF \E i \in 1..Len(repo) : repo[i].key = e.key
    THEN IF renew THEN Append(metaRemove(repo, e.key), e)
         ELSE [i \in 1..Len(repo) |-> IF repo[i].key = e.key THEN e ELSE repo[i]]
    ELSE Append(repo, e)

\* metaRepoAdd making room by removing the newest entry
metaRepoAddNewest(repo, e, renew) ==
    metaAdd(IF metaIsFull(repo) THEN metaRemove(repo, repo[Len(repo)].key) ELSE repo,
            e, renew)

\* lines 286-297: room is made first, then the entry is added
metaRepoAdd(repo, e, renew) ==
    metaAdd(IF metaIsFull(repo) THEN metaRemove(repo, Head(repo).key) ELSE repo,
            e, renew)

\* lines 254-270
InitMeta(meta_url) ==
    [url |-> meta_url, type |-> "UNKNOWN_TYPE", typesize |-> 0, fill |-> <<>>,
     fillsize |-> 0, ndims |-> 0, dimensions |-> <<>>, chunkelements |-> 0,
     elementsize |-> 0, offsetsize |-> 0, lengthsize |-> 0,
     layout |-> "UNKNOWN_LAYOUT", address |-> 0, size |-> 0, filter |-> {}]

(***************************************************************************)
(* Descent along the dataset path.  The state of a descent is              *)
(* [meta, hdl, err]: metaData, highestDataLevel and the message of the     *)
(* exception thrown, "" while none is.                                     *)
(***************************************************************************)
Throw(st, what) == [st EXCEPT !.err = what]

\* lines 765-828
readSuperblock(f, st) ==
    IF ~f.super.signature_ok THEN Throw(st, "invalid h5 file signature")
    ELSE IF f.super.version # 0 THEN Throw(st, "invalid h5 file superblock version")
    ELSE IF f.super.freespace_version # 0 THEN Throw(st, "invalid h5 file free space version")
    ELSE IF f.super.roottable_version # 0 THEN Throw(st, "invalid h5 file root table version")
    ELSE IF f.super.headermsg_version # 0 THEN Throw(st, "invalid h5 file header message version")
    ELSE [st EXCEPT !.meta.offsetsize = f.super.offsetsize,
                    !.meta.lengthsize = f.super.lengthsize]

\* lines 1868-1941
readDataspaceMsg(m, st) ==
    IF m.version # 1 THEN Throw(st, "invalid dataspace version")
    ELSE IF ((m.flags \div 2) % 2) = 1 THEN Throw(st, "unsupported permutation indexes")
    ELSE IF m.dimensionality > MAX_NDIMS THEN Throw(st, "unsupported number of dimensions")
    ELSE [st EXCEPT !.meta.ndims = Min(m.dimensionality, MAX_NDIMS),
                    !.meta.dimensions = SubSeq(m.dims, 1, Min(m.dimensionality, MAX_NDIMS))]

\* lines 2013-2121
readDatatypeMsg(m, st) ==
    LET s1 == [st EXCEPT !.meta.typesize = m.size]
    IN  IF m.version # 1 THEN Throw(s1, "invalid datatype version")
        ELSE IF m.class \notin {"FIXED_POINT_TYPE", "FLOATING_POINT_TYPE"}
             THEN Throw([s1 EXCEPT !.meta.type = m.class], "unsupported datatype")
             ELSE [s1 EXCEPT !.meta.type = m.class]

\* lines 2126-2181
readFillValueMsg(m, st) ==
    IF m.version # 2 THEN Throw(st, "invalid fill value version")
    ELSE IF ~m.defined THEN st
    ELSE IF m.size > 0
         THEN [st EXCEPT !.meta.fillsize = m.size, !.meta.fill = m.value]
         ELSE [st EXCEPT !.meta.fillsize = m.size]

\* lines 2320-2422
readDataLayoutMsg(m, st) ==
    LET s1 == [st EXCEPT !.meta.layout = m.class]
    IN  IF m.version # 3 THEN Throw(s1, "invalid data layout version")
        ELSE IF m.class \in {"COMPACT_LAYOUT", "CONTIGUOUS_LAYOUT"}
             THEN [s1 EXCEPT !.meta.address = m.address, !.meta.size = m.size]
        ELSE IF m.class = "CHUNKED_LAYOUT"
             THEN LET chunk_num_dim == Min(Len(m.chunk_dim), MAX_NDIMS)
                  IN  IF chunk_num_dim # s1.meta.ndims
                      THEN Throw(s1, "number of chunk dimensions does not match data dimensions")
                      ELSE [s1 EXCEPT
                              !.meta.address = m.address,
                              !.meta.chunkelements =
                                  IF chunk_num_dim > 0
                                  THEN Prod(SubSeq(m.chunk_dim, 1, chunk_num_dim))
                                  ELSE @,
                              !.meta.elementsize = m.elementsize]
        ELSE Throw(s1, "invalid data layout")

\* lines 2427-2501: the filters are set one by one; the first id outside
\* the table throws
RECURSIVE readFilterMsgFrom(_, _, _)
readFilterMsgFrom(m, i, st) ==
    IF i > Len(m.filters) THEN st
    ELSE IF m.filters[i] < NUM_FILTERS
         THEN readFilterMsgFrom(m, i + 1,
                                [st EXCEPT !.meta.filter = @ \cup {m.filters[i]}])
         ELSE Throw(st, "invalid filter specified")

readFilterMsg(m, st) ==
    IF m.version # 1 THEN Throw(st, "invalid filter version")
    ELSE readFilterMsgFrom(m, 1, st)

RECURSIVE readObjHdr(_, _, _, _, _)
RECURSIVE readMessage(_, _, _, _, _, _)
RECURSIVE readMessages(_, _, _, _, _, _)
RECURSIVE readMessagesV1(_, _, _, _, _, _)

\* readLinkMsg following a link of any type
readLinkMsgAnyType(f, path, m, dlvl, st) ==
    IF m.version # 1 THEN Throw(st, "invalid link version")
    ELSE IF m.link_type \in {0, 1, 64}
         THEN IF dlvl < Len(path) /\ m.name = path[dlvl + 1]
              THEN readObjHdr(f, path, m.addr, dlvl + 1, [st EXCEPT !.hdl = dlvl + 1])
              ELSE st
    ELSE Throw(st, "invalid link type")

\* lines 2186-2315: only a hard link whose name is the path component of
\* this level is followed
readLinkMsg(f, path, m, dlvl, st) ==
    IF m.version # 1 THEN Throw(st, "invalid link version")
    ELSE IF m.link_type = 0
         THEN IF dlvl < Len(path) /\ m.name = path[dlvl + 1]
              THEN readObjHdr(f, path, m.addr, dlvl + 1, [st EXCEPT !.hdl = dlvl + 1])
              ELSE st
    ELSE IF m.link_type \in {1, 64} THEN st
    ELSE Throw(st, "invalid link type")

\* lines 978-1080: the messages of a direct block from message i on
RECURSIVE readDirectBlockFrom(_, _, _, _, _, _)
readDirectBlockFrom(f, path, blk, i, dlvl, st) ==
    IF i > Len(blk.msgs) THEN st
    ELSE With(readMessage(f, path, blk.msgs[i], FALSE, dlvl, st), LAMBDA s2 :
             IF s2.err # "" THEN s2
             ELSE IF s2.hdl > dlvl THEN s2
             ELSE readDirectBlockFrom(f, path, blk, i + 1, dlvl, s2))

readDirectBlock(f, path, blk, dlvl, st) ==
    IF ~blk.signature_ok THEN Throw(st, "invalid direct block signature")
    ELSE IF blk.version # 0 THEN Throw(st, "invalid direct block version")
    ELSE readDirectBlockFrom(f, path, blk, 1, dlvl, st)

\* lines 1085-1213: the direct blocks of the root indirect block, each
\* read only while nothing was found below this level
RECURSIVE readIndirectBlock(_, _, _, _, _, _)
readIndirectBlock(f, path, blocks, b, dlvl, st) ==
    IF b > Len(blocks) THEN st
    ELSE With(IF dlvl >= st.hdl
              THEN readDirectBlock(f, path, blocks[b], dlvl, st)
              ELSE st, LAMBDA s2 :
             IF s2.err # "" THEN s2
             ELSE readIndirectBlock(f, path, blocks, b + 1, dlvl, s2))

\* lines 833-973
readFractalHeap(f, path, heap_address, dlvl, st) ==
    LET h == f.heaps[heap_address]
    IN  IF ~h.signature_ok THEN Throw(st, "invalid heap signature")
        ELSE IF h.version # 0 THEN Throw(st, "invalid heap version")
        ELSE IF h.io_filter_len > 0 THEN Throw(st, "Filtering unsupported on fractal heap")
        ELSE IF h.curr_num_rows = 0
             THEN readDirectBlock(f, path, h.blocks[1], dlvl, st)
             ELSE readIndirectBlock(f, path, h.blocks, 1, dlvl, st)

\* lines 1946-2008
readLinkInfoMsg(f, path, m, dlvl, st) ==
    IF m.version # 0 THEN Throw(st, "invalid link info version")
    ELSE IF ~H5_INVALID(m.heap_address)
         THEN readFractalHeap(f, path, m.heap_address, dlvl, st)
         ELSE st

\* lines 1455-1543: the symbols of a node from symbol s on
RECURSIVE readSymbolTableFrom(_, _, _, _, _, _)
readSymbolTableFrom(f, path, snod, s, dlvl, st) ==
    IF s > Len(snod.symbols) THEN st
    ELSE LET y == snod.symbols[s]
         IN  IF y.cache_type = 2 THEN Throw(st, "symbolic links are unsupported")
             ELSE IF dlvl < Len(path) /\ y.name = path[dlvl + 1]
                  THEN readObjHdr(f, path, y.addr, dlvl + 1,
                                  [st EXCEPT !.hdl = dlvl + 1])
                  ELSE readSymbolTableFrom(f, path, snod, s + 1, dlvl, st)

readSymbolTable(f, path, snod, dlvl, st) ==
    IF ~snod.signature_ok THEN Throw(st, "invalid symbol table signature")
    ELSE IF snod.version # 1 THEN Throw(st, "incorrect version of symbole table")
    ELSE IF snod.reserved0 # 0 THEN Throw(st, "incorrect reserved value")
    ELSE readSymbolTableFrom(f, path, snod, 1, dlvl, st)

\* lines 2657-2663: the entries of one leaf node of the group B-tree
RECURSIVE readSymbolTableEntries(_, _, _, _, _, _)
readSymbolTableEntries(f, path, entries, e, dlvl, st) ==
    IF e > Len(entries) THEN st
    ELSE With(readSymbolTable(f, path, entries[e], dlvl, st), LAMBDA s2 :
             IF s2.err # "" THEN s2
             ELSE IF s2.hdl > dlvl THEN s2
             ELSE readSymbolTableEntries(f, path, entries, e + 1, dlvl, s2))

\* lines 2642-2674: the leaf nodes left to right; the walk goes on to the
\* right sibling also when the dataset was found
RECURSIVE readSymbolTableNodes(_, _, _, _, _, _)
readSymbolTableNodes(f, path, nodes, n, dlvl, st) ==
    IF n > Len(nodes) THEN st
    ELSE With(readSymbolTableEntries(f, path, nodes[n], 1, dlvl, st), LAMBDA s2 :
             IF s2.err # "" THEN s2
             ELSE readSymbolTableNodes(f, path, nodes, n + 1, dlvl, s2))

\* lines 2561-2678
readSymbolTableMsg(f, path, m, dlvl, st) ==
    IF ~m.heap_signature_ok THEN Throw(st, "invalid heap signature")
    ELSE IF m.heap_version # 0 THEN Throw(st, "incorrect version of heap")
    ELSE IF ~m.tree_signature_ok THEN Throw(st, "invalid group b-tree signature")
    ELSE IF m.node_type # 0 THEN Throw(st, "only group b-trees supported")
    ELSE readSymbolTableNodes(f, path, m.nodes, 1, dlvl, st)

\* lines 2506-2556
readHeaderContMsg(f, path, m, v1, dlvl, st) ==
    LET blk == f.conts[m.offset]
    IN  IF v1 THEN readMessagesV1(f, path, blk.msgs, 1, dlvl, st)
        ELSE IF ~blk.signature_ok THEN Throw(st, "invalid header continuation signature")
        ELSE readMessages(f, path, blk.msgs, 1, dlvl, st)

\* lines 1839-1863; v1 is hdr_flags & H5LITE_CUSTOM_V1_FLAG
readMessage(f, path, m, v1, dlvl, st) ==
    IF m.type = "DATASPACE_MSG" THEN readDataspaceMsg(m, st)
    ELSE IF m.type = "LINK_INFO_MSG" THEN readLinkInfoMsg(f, path, m, dlvl, st)
    ELSE IF m.type = "DATATYPE_MSG" THEN readDatatypeMsg(m, st)
    ELSE IF m.type = "FILL_VALUE_MSG" THEN readFillValueMsg(m, st)
    ELSE IF m.type = "LINK_MSG" THEN readLinkMsg(f, path, m, dlvl, st)
    ELSE IF m.type = "DATA_LAYOUT_MSG" THEN readDataLayoutMsg(m, st)
    ELSE IF m.type = "FILTER_MSG" THEN readFilterMsg(m, st)
    ELSE IF m.type = "HEADER_CONT_MSG" THEN readHeaderContMsg(f, path, m, v1, dlvl, st)
    ELSE IF m.type = "SYMBOL_TABLE_MSG" THEN readSymbolTableMsg(f, path, m, dlvl, st)
    ELSE st

\* lines 1648-1696: the messages of a version 2 header from message i on
readMessages(f, path, msgs, i, dlvl, st) ==
    IF i > Len(msgs) THEN st
    ELSE With(readMessage(f, path, msgs[i], FALSE, dlvl, st), LAMBDA s2 :
             IF s2.err # "" THEN s2
             ELSE IF s2.hdl > dlvl THEN s2
             ELSE readMessages(f, path, msgs, i + 1, dlvl, s2))

\* lines 1771-1834: the messages of a version 1 header from message i on
readMessagesV1(f, path, msgs, i, dlvl, st) ==
    IF i > Len(msgs) THEN st
    ELSE With(readMessage(f, path, msgs[i], TRUE, dlvl, st), LAMBDA s2 :
             IF s2.err # "" THEN s2
             ELSE IF s2.hdl > dlvl THEN s2
             ELSE readMessagesV1(f, path, msgs, i + 1, dlvl, s2))

\* lines 1701-1766
readObjHdrV1(f, path, h, dlvl, st) ==
    readMessagesV1(f, path, h.msgs, 1, dlvl, st)

\* lines 1548-1643
readObjHdr(f, path, addr, dlvl, st) ==
    LET h == f.objs[addr]
    IN  IF h.version = 1 THEN readObjHdrV1(f, path, h, dlvl, st)
        ELSE IF ~h.signature_ok THEN Throw(st, "invalid header signature")
        ELSE IF h.version # 2 THEN Throw(st, "invalid header version")
        ELSE readMessages(f, path, h.msgs, 1, dlvl, st)

\* lines 251-280: the parse of a read that missed the repository
parse(f, dataset, meta_url) ==
    With(readSuperblock(f, [meta |-> InitMeta(meta_url), hdl |-> 0, err |-> ""]),
         LAMBDA st1 :
            IF st1.err # "" THEN st1
            ELSE readObjHdr(f, parseDataset(dataset), f.super.root, 0, st1))

(***************************************************************************)
(* The I/O of one read.  io is [ctx, heap, supersede]: the io_context_t    *)
(* the read works on, the buffers allocated for it and what Table::add     *)
(* does with a key it holds already.                                       *)
(***************************************************************************)
NewIO(supersede) == [ctx |-> EmptyContext, heap |-> <<>>, supersede |-> supersede]

\* lines 430-505, run from entry to exit by the one thread of the read:
\* ok is FALSE when ioRequest throws, [b, off] is the pointer returned
ioRequest(f, io, size, pos, hint) ==
    With(ioLookup(io.ctx, size, pos), LAMBDA e :
        IF e # NoEntry
        THEN [io |-> io, ok |-> TRUE, b |-> e.data, off |-> pos - e.pos, cached |-> FALSE]
        ELSE With(BackendRead(f, pos, Max(size, hint)), LAMBDA data :
             With(Alloc(io.heap, data), LAMBDA hp :
                 IF Len(data) < size
                 THEN [io |-> [io EXCEPT !.heap = hp], ok |-> FALSE, b |-> 0, off |-> 0,
                       cached |-> FALSE]
                 ELSE With(ioInsert(io.ctx, hp,
                                    [pos |-> pos, size |-> Len(data), data |-> Len(hp)],
                                    io.supersede), LAMBDA n :
                          [io |-> [io EXCEPT !.ctx = n.ctx, !.heap = n.heap],
                           ok |-> TRUE, b |-> Len(hp), off |-> 0, cached |-> TRUE]))))

(***************************************************************************)
(* readDataset and the chunk B-tree.  The state of a dataset read is       *)
(* ds = [io, buffer, chunkbuf, hint, err, fetches, chunks, overrun].       *)
(***************************************************************************)
Fail(ds, what) == [ds EXCEPT !.err = what]

\* LocalLib::copy of `bytes` to &buf[idx]
WriteAt(buf, idx, bytes) ==
    [i \in 1..Len(buf) |-> IF i > idx /\ i <= idx + Len(bytes)
                           THEN bytes[i - idx] ELSE buf[i]]

\* what new uint8_t[n] holds before anything is written to it
Uninit(n) == [i \in 1..n |-> Poison]

\* lines 2796-2838: zlib inflate of the stream `input` into an output of
\* output_size bytes that holds `output` before; every pass that fills the
\* output starts again at its first byte
inflateChunk(input, output, output_size) ==
    IF Len(input) < 2 \/ input[1] # DeflateMagic \/ Len(input) < 2 + input[2]
    THEN [ok |-> FALSE, out |-> output]
    ELSE LET n == input[2]
         IN  [ok  |-> TRUE,
              out |-> [i \in 1..output_size |->
                         LET js == {j \in 1..n : (j - 1) % output_size = i - 1}
                         IN  IF js = {} THEN output[i]
                             ELSE LET j == CHOOSE j \in js : \A k \in js : k <= j
                                  IN  (input[2 + j] + 156) % 256]]

\* lines 2843-2867: the bytes written to the output
shuffleChunk(input, input_size, output_offset, output_size, type_size) ==
    LET shuffle_block_size == input_size \div type_size
        num_elements       == output_size \div type_size
        start_element      == output_offset \div type_size
    IN  [k \in 1..(num_elements * type_size) |->
            LET element_index == start_element + ((k - 1) \div type_size)
                val_index     == (k - 1) % type_size
                src_index     == (val_index * shuffle_block_size) + element_index
            IN  IF src_index + 1 \in DOMAIN input THEN input[src_index + 1] ELSE Poison]

\* the inclusion test without its third clause
ChunkIncludedNoInner(data_key1, data_key2, child_key1, child_key2) ==
    \/ (data_key1 >= child_key1 /\ data_key1 < child_key2)
    \/ (data_key2 >= child_key1 /\ data_key2 < child_key2)
    \/ (child_key2 > data_key1 /\ child_key2 < data_key2)

\* lines 1292-1295
ChunkIncluded(data_key1, data_key2, child_key1, child_key2) ==
    \/ (data_key1 >= child_key1 /\ data_key1 < child_key2)
    \/ (data_key2 >= child_key1 /\ data_key2 < child_key2)
    \/ (child_key1 >= data_key1 /\ child_key1 <= data_key2)
    \/ (child_key2 > data_key1 /\ child_key2 < data_key2)

\* lines 1304-1314
ChunkOffset(meta, slice) ==
    Sum([i \in 1..meta.ndims |->
            slice[i] * meta.typesize * Prod(SubSeq(meta.dimensions, i + 1, meta.ndims))])

\* readChunk leaving dataSizeHint as it is after a fetch that was newly cached
readChunkKeepHint(f, meta, curr_node, child_addr, buffer_offset, ds) ==
    LET buffer_size         == Len(ds.buffer)
        dataChunkBufferSize == meta.chunkelements * meta.typesize
        chunk_offset        == ChunkOffset(meta, curr_node.slice)
        buffer_index        == IF chunk_offset > buffer_offset
                               THEN chunk_offset - buffer_offset ELSE 0
        chunk_index         == IF buffer_offset > chunk_offset
                               THEN buffer_offset - chunk_offset ELSE 0
        chunk_bytes         == IF buffer_index + (dataChunkBufferSize - chunk_index) > buffer_size
                               THEN buffer_size - buffer_index
                               ELSE dataChunkBufferSize - chunk_index
        deflate             == DEFLATE_FILTER \in meta.filter
        shuffle             == SHUFFLE_FILTER \in meta.filter
        \* ds after the ioRequest of the chunk
        fetched(req)        == [ds EXCEPT
                                  !.io = req.io,
                                  !.fetches = Append(@, [size |-> curr_node.chunk_size,
                                                         pos |-> child_addr,
                                                         hint |-> ds.hint,
                                                         cached |-> req.cached]),
                                  !.chunks = Append(@, [slice |-> curr_node.slice,
                                                        buffer_index |-> buffer_index,
                                                        chunk_index |-> chunk_index,
                                                        chunk_bytes |-> chunk_bytes])]
        chunk_ptr(req)      == ViewBytes(req.io.heap, req.b, req.off, curr_node.chunk_size)
        request             == ioRequest(f, ds.io, curr_node.chunk_size, child_addr, ds.hint)
    IN  IF chunk_offset > buffer_offset /\ buffer_index >= buffer_size
        THEN Fail(ds, "invalid location to read data")
        ELSE IF buffer_offset > chunk_offset /\ chunk_index >= dataChunkBufferSize
        THEN Fail(ds, "invalid location to read chunk")
        ELSE IF dataChunkBufferSize - chunk_index < 0
        THEN Fail(ds, "no bytes of chunk data to read")
        ELSE IF deflate
        THEN With(request, LAMBDA req :
             IF ~req.ok THEN Fail(fetched(req), "failed to read at least")
             ELSE IF chunk_bytes = dataChunkBufferSize /\ ~shuffle
             THEN With(inflateChunk(chunk_ptr(req),
                                    SubSeq(ds.buffer, buffer_index + 1,
                                           buffer_index + chunk_bytes),
                                    chunk_bytes), LAMBDA z :
                      IF ~z.ok THEN Fail(fetched(req), "failed to inflate entire z_stream")
                      ELSE [fetched(req) EXCEPT !.buffer = WriteAt(@, buffer_index, z.out)])
             ELSE With(inflateChunk(chunk_ptr(req), ds.chunkbuf, dataChunkBufferSize),
                       LAMBDA z :
                      IF ~z.ok THEN Fail(fetched(req), "failed to inflate entire z_stream")
                      ELSE IF shuffle
                      THEN IF meta.typesize < 0 \/ meta.typesize > 8
                           THEN Fail([fetched(req) EXCEPT !.chunkbuf = z.out],
                                     "invalid data size to perform shuffle on")
                           ELSE [fetched(req) EXCEPT
                                   !.chunkbuf = z.out,
                                   !.buffer = WriteAt(@, buffer_index,
                                                 shuffleChunk(z.out, dataChunkBufferSize,
                                                              chunk_index, chunk_bytes,
                                                              meta.typesize))]
                      ELSE [fetched(req) EXCEPT
                              !.chunkbuf = z.out,
                              !.buffer = WriteAt(@, buffer_index,
                                                 SubSeq(z.out, chunk_index + 1,
                                                        chunk_index + chunk_bytes))]))
        ELSE IF shuffle
        THEN Fail(ds, "shuffle filter unsupported on uncompressed chunk")
        ELSE IF chunk_bytes = dataChunkBufferSize /\ curr_node.chunk_size # chunk_bytes
        THEN Fail(ds, "mismatch in chunk size")
        ELSE With(request, LAMBDA req :
             IF ~req.ok THEN Fail(fetched(req), "failed to read at least")
             ELSE [fetched(req) EXCEPT
                     !.buffer = WriteAt(@, buffer_index,
                                        ViewBytes(req.io.heap, req.b, req.off + chunk_index,
                                                  chunk_bytes))])

\* lines 1302-1405: one leaf entry of the chunk B-tree
readChunk(f, meta, curr_node, child_addr, buffer_offset, ds) ==
    LET buffer_size         == Len(ds.buffer)
        dataChunkBufferSize == meta.chunkelements * meta.typesize
        chunk_offset        == ChunkOffset(meta, curr_node.slice)
        buffer_index        == IF chunk_offset > buffer_offset
                               THEN chunk_offset - buffer_offset ELSE 0
        chunk_index         == IF buffer_offset > chunk_offset
                               THEN buffer_offset - chunk_offset ELSE 0
        chunk_bytes         == IF buffer_index + (dataChunkBufferSize - chunk_index) > buffer_size
                               THEN buffer_size - buffer_index
                               ELSE dataChunkBufferSize - chunk_index
        deflate             == DEFLATE_FILTER \in meta.filter
        shuffle             == SHUFFLE_FILTER \in meta.filter
        \* ds after the ioRequest of the chunk
        fetched(req)        == [ds EXCEPT
                                  !.io = req.io,
                                  !.hint = IF req.cached THEN IO_CACHE_L1_LINESIZE ELSE @,
                                  !.fetches = Append(@, [size |-> curr_node.chunk_size,
                                                         pos |-> child_addr,
                                                         hint |-> ds.hint,
                                                         cached |-> req.cached]),
                                  !.chunks = Append(@, [slice |-> curr_node.slice,
                                                        buffer_index |-> buffer_index,
                                                        chunk_index |-> chunk_index,
                                                        chunk_bytes |-> chunk_bytes])]
        chunk_ptr(req)      == ViewBytes(req.io.heap, req.b, req.off, curr_node.chunk_size)
        request             == ioRequest(f, ds.io, curr_node.chunk_size, child_addr, ds.hint)
    IN  IF chunk_offset > buffer_offset /\ buffer_index >= buffer_size
        THEN Fail(ds, "invalid location to read data")
        ELSE IF buffer_offset > chunk_offset /\ chunk_index >= dataChunkBufferSize
        THEN Fail(ds, "invalid location to read chunk")
        ELSE IF dataChunkBufferSize - chunk_index < 0
        THEN Fail(ds, "no bytes of chunk data to read")
        ELSE IF deflate
        THEN With(request, LAMBDA req :
             IF ~req.ok THEN Fail(fetched(req), "failed to read at least")
             ELSE IF chunk_bytes = dataChunkBufferSize /\ ~shuffle
             THEN With(inflateChunk(chunk_ptr(req),
                                    SubSeq(ds.buffer, buffer_index + 1,
                                           buffer_index + chunk_bytes),
                                    chunk_bytes), LAMBDA z :
                      IF ~z.ok THEN Fail(fetched(req), "failed to inflate entire z_stream")
                      ELSE [fetched(req) EXCEPT !.buffer = WriteAt(@, buffer_index, z.out)])
             ELSE With(inflateChunk(chunk_ptr(req), ds.chunkbuf, dataChunkBufferSize),
                       LAMBDA z :
                      IF ~z.ok THEN Fail(fetched(req), "failed to inflate entire z_stream")
                      ELSE IF shuffle
                      THEN IF meta.typesize < 0 \/ meta.typesize > 8
                           THEN Fail([fetched(req) EXCEPT !.chunkbuf = z.out],
                                     "invalid data size to perform shuffle on")
                           ELSE [fetched(req) EXCEPT
                                   !.chunkbuf = z.out,
                                   !.buffer = WriteAt(@, buffer_index,
                                                 shuffleChunk(z.out, dataChunkBufferSize,
                                                              chunk_index, chunk_bytes,
                                                              meta.typesize))]
                      ELSE [fetched(req) EXCEPT
                              !.chunkbuf = z.out,
                              !.buffer = WriteAt(@, buffer_index,
                                                 SubSeq(z.out, chunk_index + 1,
                                                        chunk_index + chunk_bytes))]))
        ELSE IF shuffle
        THEN Fail(ds, "shuffle filter unsupported on uncompressed chunk")
        ELSE IF chunk_bytes = dataChunkBufferSize /\ curr_node.chunk_size # chunk_bytes
        THEN Fail(ds, "mismatch in chunk size")
        ELSE With(request, LAMBDA req :
             IF ~req.ok THEN Fail(fetched(req), "failed to read at least")
             ELSE [fetched(req) EXCEPT
                     !.buffer = WriteAt(@, buffer_index,
                                        ViewBytes(req.io.heap, req.b, req.off + chunk_index,
                                                  chunk_bytes))])

\* lines 1419-1450: the error check of a key
readBTreeNodeV1(meta, key) == key.trailing_zero % meta.typesize = 0

\* lines 1218-1414 from entry e of the node at pos on
RECURSIVE readBTreeV1From(_, _, _, _, _, _, _, _)
\* lines 1218-1414
RECURSIVE readBTreeV1(_, _, _, _, _, _, _)
readBTreeV1From(f, meta, node, e, startrow, numrows, buffer_offset, ds) ==
    IF ds.err # "" \/ e > Len(node.children) THEN ds
    ELSE LET curr_node  == node.keys[e]
             next_node  == node.keys[e + 1]
             child_addr == node.children[e]
             data_key1  == startrow
             data_key2  == startrow + numrows - 1
             child_key1 == curr_node.slice[1]
             child_key2 == IF next_node.chunk_size = 0 /\ meta.ndims > 0
                           THEN meta.dimensions[1] ELSE next_node.slice[1]
         IN  IF ~readBTreeNodeV1(meta, next_node)
             THEN Fail(ds, "key did not include a trailing zero")
             ELSE IF ~ChunkIncluded(data_key1, data_key2, child_key1, child_key2)
             THEN readBTreeV1From(f, meta, node, e + 1, startrow, numrows, buffer_offset, ds)
             ELSE readBTreeV1From(f, meta, node, e + 1, startrow, numrows, buffer_offset,
                     IF node.level > 0
                     THEN readBTreeV1(f, meta, child_addr, startrow, numrows,
                                      buffer_offset, ds)
                     ELSE readChunk(f, meta, curr_node, child_addr, buffer_offset, ds))

readBTreeV1(f, meta, pos, startrow, numrows, buffer_offset, ds) ==
    IF pos \notin DOMAIN f.btrees THEN Fail(ds, "invalid b-tree signature")
    ELSE LET node == f.btrees[pos]
         IN  IF ~node.signature_ok THEN Fail(ds, "invalid b-tree signature")
             ELSE IF node.node_type # 1 THEN Fail(ds, "only raw data chunk b-trees supported")
             ELSE IF ~readBTreeNodeV1(meta, node.keys[1])
             THEN Fail(ds, "key did not include a trailing zero")
             ELSE readBTreeV1From(f, meta, node, 1, startrow, numrows, buffer_offset, ds)

\* what LocalLib::set leaves in *data_info (line 194)
ZeroInfo == [typesize |-> 0, elements |-> 0, datasize |-> 0, null |-> TRUE, data |-> <<>>,
             datatype |-> "ZERO", numrows |-> 0, numcols |-> 0]

\* readDataset without the test of line 642
rowsInRangeUnchecked(startrow, numrows, first_dimension) == TRUE

\* line 642: the rows asked for lie inside the first dimension
rowsInRange(startrow, numrows, first_dimension) ==
    ~(startrow + numrows > first_dimension)

\* readDataset without the fill loop of lines 655-661
FillBufferUntiled(meta, buffer_size) == Uninit(buffer_size)

\* lines 647-662: the buffer as allocated and tiled with the fill value
FillBuffer(meta, buffer_size) ==
    IF meta.fillsize > 0
    THEN [i \in 1..buffer_size |->
             IF ((i - 1) % meta.fillsize) + 1 \in DOMAIN meta.fill
             THEN meta.fill[((i - 1) % meta.fillsize) + 1] ELSE Poison]
    ELSE Uninit(buffer_size)

\* lines 615-760
readDataset(f, meta, startrow, numrows_in, io) ==
    LET ds0 == [io |-> io, buffer |-> <<>>, chunkbuf |-> <<>>, hint |-> 0, err |-> "",
                fetches |-> <<>>, chunks |-> <<>>, allocated |-> FALSE,
                info |-> [typesize |-> meta.typesize, elements |-> 0, datasize |-> 0,
                          null |-> TRUE, data |-> <<>>, datatype |-> "DYNAMIC",
                          numrows |-> 0, numcols |-> 0]]
        row_size        == meta.typesize * Prod(SubSeq(meta.dimensions, 2, meta.ndims))
        first_dimension == IF meta.ndims > 0 THEN meta.dimensions[1] ELSE 0
        numrows         == IF numrows_in = ALL_ROWS THEN first_dimension ELSE numrows_in
        buffer_size     == row_size * numrows
        data_buffer     == IF buffer_size > 0 THEN FillBuffer(meta, buffer_size) ELSE <<>>
        buffer_offset   == row_size * startrow
        ds1 == [ds0 EXCEPT
                  !.buffer = data_buffer,
                  !.allocated = buffer_size > 0,
                  !.info = [typesize |-> meta.typesize,
                            elements |-> buffer_size \div meta.typesize,
                            datasize |-> buffer_size,
                            null     |-> ~(buffer_size > 0),
                            data     |-> <<>>,
                            datatype |-> IF meta.type = "FIXED_POINT_TYPE" THEN "INTEGER"
                                         ELSE IF meta.type = "FLOATING_POINT_TYPE" THEN "REAL"
                                         ELSE IF meta.type = "STRING_TYPE" THEN "TEXT"
                                         ELSE "DYNAMIC",
                            numrows  |-> numrows,
                            numcols  |-> IF meta.ndims = 0 THEN 0
                                         ELSE IF meta.ndims = 1 THEN 1
                                         ELSE meta.dimensions[2]]]
    IN  IF meta.typesize <= 0 THEN Fail(ds0, "missing data type information")
        ELSE IF ~rowsInRange(startrow, numrows, first_dimension)
        THEN Fail(ds0, "read exceeds number of rows")
        ELSE IF H5_INVALID(meta.address)
        THEN Fail(ds1, "data not allocated in contiguous layout")
        ELSE IF meta.size # 0 /\ meta.size < buffer_offset + buffer_size
        THEN Fail(ds1, "read exceeds available data")
        ELSE IF (DEFLATE_FILTER \in meta.filter \/ SHUFFLE_FILTER \in meta.filter)
                /\ meta.layout \in {"COMPACT_LAYOUT", "CONTIGUOUS_LAYOUT"}
        THEN Fail(ds1, "filters unsupported on non-chunked layouts")
        ELSE IF ~(buffer_size > 0) THEN ds1
        ELSE IF meta.layout \in {"COMPACT_LAYOUT", "CONTIGUOUS_LAYOUT"}
        THEN LET data_addr == meta.address + buffer_offset
                 d2(req) == [ds1 EXCEPT !.io = req.io,
                                        !.fetches = <<[size |-> buffer_size,
                                                       pos |-> data_addr,
                                                       hint |-> DefaultHint,
                                                       cached |-> req.cached]>>]
             IN  With(ioRequest(f, io, buffer_size, data_addr, DefaultHint), LAMBDA req :
                     IF ~req.ok THEN Fail(d2(req), "failed to read at least")
                     ELSE [d2(req) EXCEPT
                             !.buffer = ViewBytes(req.io.heap, req.b, req.off, buffer_size)])
        ELSE IF meta.layout = "CHUNKED_LAYOUT"
        THEN IF meta.elementsize # meta.typesize
             THEN Fail(ds1, "chunk element size does not match data element size")
             ELSE IF meta.chunkelements <= 0
             THEN Fail(ds1, "invalid number of chunk elements")
             ELSE LET d2 == [ds1 EXCEPT
                               !.chunkbuf = Uninit(meta.chunkelements * meta.typesize),
                               !.hint = buffer_size]
                      \* the prefetch of lines 737-743
                      d3 == IF buffer_offset < buffer_size
                            THEN With(ioRequest(f, io, 0, meta.address,
                                                buffer_offset + buffer_size), LAMBDA pre :
                                     [d2 EXCEPT
                                        !.io = pre.io,
                                        !.hint = IF pre.cached THEN IO_CACHE_L1_LINESIZE
                                                 ELSE @,
                                        !.fetches = <<[size |-> 0, pos |-> meta.address,
                                                       hint |-> buffer_offset + buffer_size,
                                                       cached |-> pre.cached]>>])
                            ELSE d2
                  IN  readBTreeV1(f, meta, meta.address, startrow, numrows, buffer_offset, d3)
        ELSE Fail(ds1, "invalid data layout")
(***************************************************************************)
(* Units of the code run on their own.  `unit` holds the name of the unit, *)
(* the inputs it was entered with and, once it has run, what it did.       *)
(***************************************************************************)
VARIABLES unit

\* no unit is being run
NoUnit == [name |-> "none"]

\* row keys and row counts of the B-tree entries tried
MaxKey == 4

\* lines 1218-1222 and 1264-1301: one entry of a node of the chunk B-tree,
\* entered with the rows of the read and the keys of the child
InitInclusion ==
    \E startrow \in 0..MaxKey, numrows \in 1..MaxKey,
       child_key1 \in 0..MaxKey, child_key2 \in 0..MaxKey :
        unit = [name |-> "readBTreeV1", startrow |-> startrow, numrows |-> numrows,
                child_key1 |-> child_key1, child_key2 |-> child_key2,
                done |-> FALSE, visited |-> FALSE]

\* lines 1220-1221 and 1291-1301: the child is processed or passed over
CheckInclusion ==
    /\ unit.name = "readBTreeV1" /\ ~unit.done
    /\ LET data_key1 == unit.startrow
           data_key2 == unit.startrow + unit.numrows - 1
       IN  unit' = [unit EXCEPT
                      !.done = TRUE,
                      !.visited = ChunkIncluded(data_key1, data_key2,
                                                unit.child_key1, unit.child_key2)]


(***************************************************************************)
(* The descent along the path of the dataset, one loop iteration at a      *)
(* time.  The calls in progress are the frames of a stack; a frame is a    *)
(* loop over the messages of an object header, of a continuation block or  *)
(* of a direct block, over the direct blocks of an indirect block, over    *)
(* the entries of a node of a group B-tree, or over the symbols of a       *)
(* symbol table node.                                                      *)
(***************************************************************************)
\* the components of the paths tried, and the depth of the calls in progress
MaxPath == 3
MaxDepth == 6

\* the message that names the B-tree of a version 1 group by its address
GroupTree(btree_addr) ==
    [type |-> "SYMBOL_TABLE_MSG", heap_signature_ok |-> TRUE, heap_version |-> 0,
     btree_addr |-> btree_addr]
\* what is read at the address of a node of a group B-tree
GroupNode(node_level, first_child, entries, right_sibling) ==
    [signature_ok |-> TRUE, node_type |-> 0, node_level |-> node_level,
     first_child |-> first_child, entries |-> entries,
     right_sibling |-> right_sibling]
DirectBlock(msgs) == [signature_ok |-> TRUE, version |-> 0, msgs |-> msgs]
Heap(curr_num_rows, blocks) ==
    [signature_ok |-> TRUE, version |-> 0, io_filter_len |-> 0,
     curr_num_rows |-> curr_num_rows, blocks |-> blocks]
ContBlock(msgs) == [signature_ok |-> TRUE, msgs |-> msgs]

\* a well-formed file: links in a fractal heap and in a continuation block,
\* and a version 1 group whose B-tree has a root and two leaves
TreeFile ==
    [root  |-> 1,
     objs  |-> 1 :> ObjHdr(2, << Attribute, LinkInfo(50), HeaderCont(60) >>)
            @@ 2 :> ObjHdr(2, << Dataspace(<<2>>) >>)
            @@ 3 :> ObjHdr(2, << Link(0, "d", 2) >>)
            @@ 4 :> ObjHdr(1, << GroupTree(70) >>)
            @@ 5 :> ObjHdr(1, << Link(1, "d", 2), Link(0, "d", 2) >>),
     heaps |-> 50 :> Heap(1, << DirectBlock(<< Link(0, "a", 2), Link(0, "d", 2) >>),
                                DirectBlock(<< Link(0, "h", 3) >>) >>),
     conts |-> 60 :> ContBlock(<< Link(0, "g", 4) >>),
     nodes |-> 70 :> GroupNode(1, 71, <<>>, -1)
            @@ 71 :> GroupNode(0, -1, << SymbolNode(<< Symbol("a", 2, 0),
                                                        Symbol("h", 5, 0) >>) >>, 72)
            @@ 72 :> GroupNode(0, -1, << SymbolNode(<< Symbol("d", 2, 0) >>) >>, -1)]

\* a group that holds a hard link to itself
LinkLoopFile ==
    [root  |-> 1,
     objs  |-> 1 :> ObjHdr(2, << Link(0, "g", 2) >>)
            @@ 2 :> ObjHdr(2, << Link(0, "g", 2), Link(0, "d", 3) >>)
            @@ 3 :> ObjHdr(2, << Dataspace(<<2>>) >>),
     heaps |-> <<>>, conts |-> <<>>, nodes |-> <<>>]

\* a continuation block whose continuation message names the block itself
ContLoopFile ==
    [root  |-> 1,
     objs  |-> 1 :> ObjHdr(2, << Link(0, "a", 2), HeaderCont(60) >>)
            @@ 2 :> ObjHdr(2, << Dataspace(<<2>>) >>),
     heaps |-> <<>>,
     conts |-> 60 :> ContBlock(<< Link(0, "g", 2), HeaderCont(60) >>),
     nodes |-> <<>>]

\* a leaf of a group B-tree whose right sibling is the leaf itself
SiblingLoopFile ==
    [root  |-> 1,
     objs  |-> 1 :> ObjHdr(1, << GroupTree(70) >>)
            @@ 2 :> ObjHdr(2, << Dataspace(<<2>>) >>),
     heaps |-> <<>>, conts |-> <<>>,
     nodes |-> 70 :> GroupNode(0, -1, << SymbolNode(<< Symbol("g", 2, 0) >>) >>, 70)]

\* a group whose two leaves both hold the name h
TwinFile ==
    [root  |-> 1,
     objs  |-> 1 :> ObjHdr(1, << GroupTree(70) >>)
            @@ 2 :> ObjHdr(2, << Link(0, "d", 4) >>)
            @@ 3 :> ObjHdr(2, << Attribute >>)
            @@ 4 :> ObjHdr(2, << Dataspace(<<2>>) >>),
     heaps |-> <<>>, conts |-> <<>>,
     nodes |-> 70 :> GroupNode(0, -1, << SymbolNode(<< Symbol("h", 2, 0) >>) >>, 71)
            @@ 71 :> GroupNode(0, -1, << SymbolNode(<< Symbol("h", 3, 0) >>) >>, -1)]

DescentFiles ==
    [tree |-> TreeFile, linkloop |-> LinkLoopFile, contloop |-> ContLoopFile,
     siblingloop |-> SiblingLoopFile, twin |-> TwinFile]
DescentNames == {"a", "d", "g", "h"}
RECURSIVE PathsOfLen(_)
PathsOfLen(n) ==
    IF n = 0 THEN {<<>>}
    ELSE {Append(p, c) : p \in PathsOfLen(n - 1), c \in DescentNames}
DescentPaths == UNION {PathsOfLen(n) : n \in 1..MaxPath}

\* a call in progress: the loop it is in (k), the block it loops over (a, b),
\* the next iteration (i), its level and the version 1 flag of its header
Frame(k, a, b, i, dlvl, v1) ==
    [k |-> k, a |-> a, b |-> b, i |-> i, dlvl |-> dlvl, v1 |-> v1]
Top == unit.stack[Len(unit.stack)]
Running(k) ==
    /\ unit.name = "descent" /\ unit.err = "" /\ unit.stack # <<>>
    /\ Top.k \in k
File == DescentFiles[unit.file]
\* the frames below the top one
Rest == SubSeq(unit.stack, 1, Len(unit.stack) - 1)
\* the top frame goes on with its next iteration
Advance(u) == [u EXCEPT !.stack[Len(unit.stack)].i = @ + 1]
Return(u) == [u EXCEPT !.stack = Rest]
Raise(u, what) == [u EXCEPT !.err = what]
\* the call of a parser on a block, noted as parsed
Call(u, fr, block) ==
    [u EXCEPT !.stack = Append(@, fr),
              !.seen = @ \cup {block},
              !.again = IF block \in u.seen THEN @ \cup {block} ELSE @]
\* the call of a parser on a part of a block
Enter(u, fr) == [u EXCEPT !.stack = Append(@, fr)]

\* lines 1548-1643 and 1701-1766: the checks of readObjHdr, then its loop
\* over the messages
callReadObjHdr(u, addr, dlvl) ==
    LET h == File.objs[addr]
    IN  IF h.version = 1
        THEN Call(u, Frame("obj", addr, 0, 1, dlvl, TRUE), <<"obj", addr>>)
        ELSE IF ~h.signature_ok THEN Raise(u, "invalid header signature")
        ELSE IF h.version # 2 THEN Raise(u, "invalid header version")
        ELSE Call(u, Frame("obj", addr, 0, 1, dlvl, FALSE), <<"obj", addr>>)

\* lines 208 and 251-280: the descent starts at the root group, on level 0
InitDescent ==
    \E file \in DOMAIN DescentFiles, path \in DescentPaths :
        unit = [name |-> "descent", file |-> file, path |-> path,
                stack |-> << Frame("obj", DescentFiles[file].root, 0, 1, 0,
                                   DescentFiles[file].objs[DescentFiles[file].root].version = 1) >>,
                seen |-> {<<"obj", DescentFiles[file].root>>}, again |-> {},
                highestDataLevel |-> 0, err |-> ""]

\* the messages a frame loops over
MsgsOf(fr) ==
    IF fr.k = "obj" THEN File.objs[fr.a].msgs
    ELSE IF fr.k = "cont" THEN File.conts[fr.a].msgs
    ELSE File.heaps[fr.a].blocks[fr.b].msgs

\* lines 2186-2315
stepLinkMsg(u, m, fr) ==
    IF m.version # 1 THEN Raise(u, "invalid link version")
    ELSE IF m.link_type = 0
         THEN IF fr.dlvl < Len(unit.path) /\ m.name = unit.path[fr.dlvl + 1]
              THEN callReadObjHdr([u EXCEPT !.highestDataLevel = fr.dlvl + 1],
                                  m.addr, fr.dlvl + 1)
              ELSE u
    ELSE IF m.link_type \in {1, 64} THEN u
    ELSE Raise(u, "invalid link type")

\* lines 2506-2556
stepHeaderContMsg(u, m, fr) ==
    LET blk == File.conts[m.offset]
    IN  IF ~fr.v1 /\ ~blk.signature_ok
        THEN Raise(u, "invalid header continuation signature")
        ELSE Call(u, Frame("cont", m.offset, 0, 1, fr.dlvl, fr.v1), <<"cont", m.offset>>)

\* lines 2561-2604: the checks of the heap, then the way to the left-most leaf
stepSymbolTableMsg(u, m, fr) ==
    IF ~m.heap_signature_ok THEN Raise(u, "invalid heap signature")
    ELSE IF m.heap_version # 0 THEN Raise(u, "incorrect version of heap")
    ELSE Call(u, Frame("down", m.btree_addr, 0, 1, fr.dlvl, fr.v1), <<"node", m.btree_addr>>)

\* lines 833-973 and 1946-2008
stepLinkInfoMsg(u, m, fr) ==
    IF m.version # 0 THEN Raise(u, "invalid link info version")
    ELSE IF H5_INVALID(m.heap_address) THEN u
    ELSE LET h == File.heaps[m.heap_address]
         IN  IF ~h.signature_ok THEN Raise(u, "invalid heap signature")
             ELSE IF h.version # 0 THEN Raise(u, "invalid heap version")
             ELSE IF h.io_filter_len > 0
                  THEN Raise(u, "Filtering unsupported on fractal heap")
             ELSE IF h.curr_num_rows = 0
                  THEN Enter(u, Frame("dblk", m.heap_address, 1, 1, fr.dlvl, fr.v1))
                  ELSE Enter(u, Frame("iblk", m.heap_address, 0, 1, fr.dlvl, fr.v1))

\* lines 1839-1863: the messages that take part in the descent
stepMessage(u, m, fr) ==
    IF m.type = "LINK_INFO_MSG" THEN stepLinkInfoMsg(u, m, fr)
    ELSE IF m.type = "LINK_MSG" THEN stepLinkMsg(u, m, fr)
    ELSE IF m.type = "HEADER_CONT_MSG" THEN stepHeaderContMsg(u, m, fr)
    ELSE IF m.type = "SYMBOL_TABLE_MSG" THEN stepSymbolTableMsg(u, m, fr)
    ELSE u

\* lines 1648-1696, 1771-1834 and 1032-1072: one turn of the loop over the
\* messages of a header, of a continuation block or of a direct block
readMessagesStep ==
    /\ Running({"obj", "cont", "dblk"})
    /\ LET fr == Top
       IN  IF (fr.i > 1 /\ unit.highestDataLevel > fr.dlvl) \/ fr.i > Len(MsgsOf(fr))
           THEN unit' = Return(unit)
           ELSE unit' = stepMessage(Advance(unit), MsgsOf(fr)[fr.i], fr)
    /\ Len(unit'.stack) <= MaxDepth

\* lines 1085-1213: one entry of the root indirect block
readIndirectBlockStep ==
    /\ Running({"iblk"})
    /\ LET fr == Top
           h  == File.heaps[fr.a]
       IN  IF fr.i > Len(h.blocks) THEN unit' = Return(unit)
           ELSE IF fr.dlvl >= unit.highestDataLevel
                THEN IF ~h.blocks[fr.i].signature_ok
                     THEN unit' = Raise(unit, "invalid direct block signature")
                     ELSE IF h.blocks[fr.i].version # 0
                          THEN unit' = Raise(unit, "invalid direct block version")
                          ELSE unit' = Enter(Advance(unit),
                                             Frame("dblk", fr.a, fr.i, 1, fr.dlvl, fr.v1))
                ELSE unit' = Advance(unit)
    /\ Len(unit'.stack) <= MaxDepth

\* lines 2604-2640: one turn of the loop that goes to the left-most leaf
readSymbolTableMsgDown ==
    /\ Running({"down"})
    /\ LET fr == Top
           n  == File.nodes[fr.a]
       IN  IF ~n.signature_ok
           THEN unit' = Raise(unit, "invalid group b-tree signature")
           ELSE IF n.node_type # 0
                THEN unit' = Raise(unit, "only group b-trees supported")
           ELSE IF n.node_level = 0
                THEN unit' = [unit EXCEPT !.stack[Len(unit.stack)].k = "walk"]
                ELSE unit' = Call(Return(unit),
                                  Frame("down", n.first_child, 0, 1, fr.dlvl, fr.v1),
                                  <<"node", n.first_child>>)

\* lines 2642-2674: one entry of a leaf, or the step to its right sibling
readSymbolTableMsgWalk ==
    /\ Running({"walk"})
    /\ LET fr == Top
           n  == File.nodes[fr.a]
       IN  IF fr.i <= Len(n.entries) /\ ~(fr.i > 1 /\ unit.highestDataLevel > fr.dlvl)
           THEN LET snod == n.entries[fr.i]
                IN  IF ~snod.signature_ok
                    THEN unit' = Raise(unit, "invalid symbol table signature")
                    ELSE IF snod.version # 1
                         THEN unit' = Raise(unit, "incorrect version of symbole table")
                    ELSE IF snod.reserved0 # 0
                         THEN unit' = Raise(unit, "incorrect reserved value")
                    ELSE unit' = Enter(Advance(unit),
                                       Frame("syms", fr.a, fr.i, 1, fr.dlvl, fr.v1))
           ELSE IF H5_INVALID(n.right_sibling)
                THEN unit' = Return(unit)
                ELSE unit' = Call(Return(unit),
                                  Frame("walk", n.right_sibling, 0, 1, fr.dlvl, fr.v1),
                                  <<"node", n.right_sibling>>)
    /\ Len(unit'.stack) <= MaxDepth

\* lines 1486-1538: one symbol of a symbol table node
readSymbolTableStep ==
    /\ Running({"syms"})
    /\ LET fr   == Top
           snod == File.nodes[fr.a].entries[fr.b]
       IN  IF fr.i > Len(snod.symbols) THEN unit' = Return(unit)
           ELSE LET y == snod.symbols[fr.i]
                IN  IF y.cache_type = 2
                    THEN unit' = Raise(unit, "symbolic links are unsupported")
                    ELSE IF fr.dlvl < Len(unit.path) /\ y.name = unit.path[fr.dlvl + 1]
                         THEN unit' = callReadObjHdr(
                                          [Return(unit) EXCEPT !.highestDataLevel = fr.dlvl + 1],
                                          y.addr, fr.dlvl + 1)
                         ELSE unit' = Advance(unit)
    /\ Len(unit'.stack) <= MaxDepth

(***************************************************************************)
(* The loop that tiles the buffer of a read with the fill value            *)
(***************************************************************************)
\* the sizes of the fill value (what readField can read) and of the buffers
MaxFillSize == 8
MaxBufferSize == 12

\* lines 648-654: the buffer is allocated and the fill size is positive;
\* written is the set of the indices the loop has written
InitFill ==
    \E fillsize \in 1..MaxFillSize, buffer_size \in 1..MaxBufferSize :
        unit = [name |-> "fill", fillsize |-> fillsize, buffer_size |-> buffer_size,
                i |-> 0, written |-> {}]

\* lines 655-658: one turn of the loop, a copy of fillsize bytes to buffer[i]
fillStep ==
    /\ unit.name = "fill"
    /\ unit.i < unit.buffer_size
    /\ unit' = [unit EXCEPT !.written = @ \cup (unit.i .. unit.i + unit.fillsize - 1),
                            !.i = @ + unit.fillsize]

(***************************************************************************)
(* The column translation of H5Coro::read                                  *)
(***************************************************************************)
\* the rows, the columns and the bytes of one column of a row in the data
\* read; col is tried from -1 to MaxCols
MaxRows == 3
MaxCols == 3
MaxColBytes == 2

\* lines 2950-2951: the data of a read of numrows rows of numcols columns;
\* reads is the set of the indices of info.data the loop has copied from
InitColumn ==
    \E numrows \in 1..MaxRows, numcols \in 1..MaxCols,
       colbytes \in 1..MaxColBytes, col \in -1..MaxCols :
        unit = [name |-> "column", numrows |-> numrows, numcols |-> numcols,
                datasize |-> numrows * numcols * colbytes, col |-> col,
                row |-> 0, reads |-> {}, tbuf_size |-> 0, switched |-> FALSE]

\* lines 2956-2970: one turn of the loop that copies the column of a row
columnCopy ==
    /\ unit.name = "column" /\ ~unit.switched
    /\ unit.numcols > 1
    /\ unit.row < unit.numrows
    /\ LET tbuf_row_size == unit.datasize \div unit.numrows
           tbuf_col_size == tbuf_row_size \div unit.numcols
           data_offset   == (unit.row * tbuf_row_size) + (unit.col * tbuf_col_size)
       IN  unit' = [unit EXCEPT
                      !.reads = @ \cup (data_offset .. data_offset + tbuf_col_size - 1),
                      !.tbuf_size = unit.datasize \div unit.numcols,
                      !.row = @ + 1]

\* lines 2972-2976: the column buffer takes the place of the data
columnSwitch ==
    /\ unit.name = "column" /\ ~unit.switched
    /\ unit.numcols > 1
    /\ unit.row = unit.numrows
    /\ unit' = [unit EXCEPT !.switched = TRUE]

(***************************************************************************)
(* ArcticDEMRaster: sample, findNewRaster and readRaster, on a small plane *)
(* of points given in the coordinates of the rasters.                      *)
(***************************************************************************)
\* the points sampled are (0..MaxX, 0..MaxY)
MaxX == 4
MaxY == 1

NullDataset == "NULL"
\* the index raster: its size, and the file its LocationInfo names for a
\* pixel ("" where it names none)
VrtXSize == 4
VrtYSize == 2
LocationInfo(col, row) ==
    IF col \in {0, 1} THEN "r1" ELSE IF col = 2 THEN "r2" ELSE ""
\* the rasters GDALOpenEx can open, each with its geotransform, its size and
\* its block size; r2 cannot be opened
Rasters ==
    [r1 |-> [geot |-> <<0, 1, 0, 2, 0, -1>>, cols |-> 2, rows |-> 2,
             xblocksize |-> 2, yblocksize |-> 1]]
\* the elevation stored in a pixel of a raster
PixelOf(fname, col, row) == 100 + (10 * row) + col

NoBbox == [lon_min |-> 0, lon_max |-> 0, lat_min |-> 0, lat_max |-> 0]
Returned(kind, value) == [kind |-> kind, value |-> value]
ARCTIC_DEM_INVALID_ELELVATION == Returned("invalid", 0)

\* lines 458-472: the members as the constructor leaves them, and no call
\* of sample in progress
InitSample ==
    unit = [name |-> "sample", rdset |-> NullDataset, bbox |-> NoBbox,
            cellsize |-> 0, xblocksize |-> 0, yblocksize |-> 0,
            rasterfname |-> "", pc |-> "idle", p |-> <<0, 0>>,
            ret |-> Returned("none", 0)]

\* lines 153-178: sample up to its call of readRaster or of findNewRaster;
\* the transformation of the point succeeds or fails
sample ==
    /\ unit.name = "sample" /\ unit.pc = "idle"
    /\ \E lon \in 0..MaxX, lat \in 0..MaxY, transformed \in BOOLEAN :
        IF transformed
        THEN IF /\ unit.rdset # NullDataset
                /\ lon >= unit.bbox.lon_min
                /\ lon <= unit.bbox.lon_max
                /\ lat >= unit.bbox.lat_min
                /\ lat <= unit.bbox.lat_max
             THEN unit' = [unit EXCEPT !.p = <<lon, lat>>, !.pc = "readRaster"]
             ELSE unit' = [unit EXCEPT !.p = <<lon, lat>>, !.pc = "findNewRaster"]
        ELSE unit' = [unit EXCEPT !.p = <<lon, lat>>,
                                  !.ret = ARCTIC_DEM_INVALID_ELELVATION]

\* lines 230-309: the raster that was open is closed, the file of the pixel
\* is looked up and opened; sample goes on to readRaster whatever was found
findNewRaster ==
    /\ unit.name = "sample" /\ unit.pc = "findNewRaster"
    /\ LET closed == IF unit.rdset # NullDataset
                     THEN [unit EXCEPT !.rdset = NullDataset, !.bbox = NoBbox,
                                       !.cellsize = 0, !.xblocksize = 0,
                                       !.yblocksize = 0, !.rasterfname = ""]
                     ELSE unit
           col == unit.p[1]
           row == unit.p[2]
           fname == IF col < VrtXSize /\ row < VrtYSize
                    THEN LocationInfo(col, row) ELSE ""
           rasterFound == fname # ""
       IN  IF ~rasterFound
           THEN unit' = [closed EXCEPT !.pc = "readRaster"]
           ELSE IF fname \notin DOMAIN Rasters
                THEN unit' = [closed EXCEPT !.rasterfname = fname, !.pc = "readRaster"]
                ELSE LET r == Rasters[fname]
                     IN  unit' = [closed EXCEPT
                                    !.rasterfname = fname,
                                    !.rdset = fname,
                                    !.bbox = [lon_min |-> r.geot[1],
                                              lon_max |-> r.geot[1] + r.cols * r.geot[2],
                                              lat_max |-> r.geot[4],
                                              lat_min |-> r.geot[4] + r.rows * r.geot[6]],
                                    !.cellsize = r.geot[2],
                                    !.xblocksize = r.xblocksize,
                                    !.yblocksize = r.yblocksize,
                                    !.pc = "readRaster"]

\* lines 315-385: with no raster open the call through rdset is undefined
\* (the process ends, or goes on with any value); with a raster open the
\* pixel of the point is read from its block, and a block outside the
\* raster gives the invalid elevation
readRaster ==
    /\ unit.name = "sample" /\ unit.pc = "readRaster"
    /\ IF unit.rdset = NullDataset
       THEN \/ unit' = [unit EXCEPT !.pc = "crashed", !.ret = Returned("crash", 0)]
            \/ \E v \in {ARCTIC_DEM_INVALID_ELELVATION, Returned("elevation", 0)} :
                  unit' = [unit EXCEPT !.pc = "idle", !.ret = v]
       ELSE LET col == (unit.p[1] - unit.bbox.lon_min) \div unit.cellsize
                row == (unit.bbox.lat_max - unit.p[2]) \div unit.cellsize
                r   == Rasters[unit.rdset]
            IN  IF col < r.cols /\ row < r.rows
                THEN unit' = [unit EXCEPT !.pc = "idle",
                                !.ret = Returned("elevation", PixelOf(unit.rdset, col, row))]
                ELSE unit' = [unit EXCEPT !.pc = "idle",
                                !.ret = ARCTIC_DEM_INVALID_ELELVATION]

(***************************************************************************)
(* The constructor of H5FileBuffer and H5Coro::read                        *)
(***************************************************************************)
\* the try block of the constructor publishing whatever became of the read
metaStoreAlways(repo, e, err, renew) == metaRepoAdd(repo, e, renew)

\* lines 249-298: the repository is written at the end of the try block,
\* which an exception (err # "") leaves before
metaStore(repo, e, err, renew) ==
    IF err # "" THEN repo ELSE metaRepoAdd(repo, e, renew)

\* lines 187-309.  c is the call [url, dataset, startrow, numrows, context,
\* ...], context = TRUE when the caller passes an io_context_t of its own.
\* The result tells how the constructor ended: what # "" is the message of
\* the exception it threw, named whether the message ends in the dataset
\* name, tried whether the try block was entered, repo_full what
\* metaRepo.isfull() answers (line 289).
H5FileBuffer(repo, c, supersede) ==
    LET none == [what |-> "", named |-> FALSE, phase |-> "done", tried |-> FALSE,
                 opened |-> FALSE, ctx_local |-> FALSE, io |-> NewIO(supersede),
                 meta_found |-> FALSE, meta |-> InitMeta(<<>>), src |-> c.url,
                 key |-> 0, hdl |-> 0, info |-> ZeroInfo, allocated |-> FALSE,
                 fetches |-> <<>>, chunks |-> <<>>, repo_full |-> metaIsFull(repo)]
    IN  IF parseUrl(c.url) = "UNKNOWN"
        THEN [none EXCEPT !.what = "Invalid url", !.phase = "url"]
        ELSE IF ioOpen(c.url) # ""
        THEN [none EXCEPT !.what = ioOpen(c.url), !.phase = "open"]
        ELSE
        LET open == [none EXCEPT !.opened = TRUE, !.ctx_local = ~c.context]
            mu   == metaGetUrl(c.url, c.dataset)
        IN  IF ~mu.fits
            THEN [open EXCEPT !.what = "truncated meta repository url", !.phase = "metaurl"]
            ELSE
            LET meta_key   == metaGetKey(mu.url)
                found      == metaFind(repo, meta_key)
                meta_found == found # NoMeta /\ found.meta.url = mu.url
                f          == Store(c.url)
                try(st)    == [open EXCEPT !.tried = TRUE, !.meta_found = meta_found,
                                           !.meta = st.meta, !.key = meta_key,
                                           !.src = IF meta_found THEN found.src ELSE c.url,
                                           !.hdl = st.hdl]
                got(st, ds) == [try(st) EXCEPT !.io = ds.io, !.allocated = ds.allocated,
                                               !.fetches = ds.fetches, !.chunks = ds.chunks]
            IN  With(IF meta_found
                     THEN [meta |-> found.meta, hdl |-> 0, err |-> ""]
                     ELSE parse(f, c.dataset, mu.url), LAMBDA st :
                IF st.err # ""
                THEN [try(st) EXCEPT !.what = st.err, !.named = TRUE, !.phase = "parse"]
                ELSE
                With(readDataset(f, st.meta, c.startrow, c.numrows, NewIO(supersede)),
                     LAMBDA ds :
                    IF ds.err # ""
                    THEN [got(st, ds) EXCEPT
                            !.what = ds.err, !.named = TRUE, !.phase = "dataset",
                            !.info = [ds.info EXCEPT !.null = TRUE, !.datasize = 0]]
                    ELSE [got(st, ds) EXCEPT !.info = [ds.info EXCEPT !.data = ds.buffer]]))

\* lines 2955-2977: the column buffer; a source index outside the data
\* reads whatever lies there
ColumnBuffer(info, col) ==
    LET tbuf_size     == info.datasize \div info.numcols
        tbuf_row_size == info.datasize \div info.numrows
        tbuf_col_size == tbuf_row_size \div info.numcols
    IN  [k \in 1..tbuf_size |->
            LET row         == (k - 1) \div tbuf_col_size
                data_offset == (row * tbuf_row_size) + (col * tbuf_col_size)
                              + ((k - 1) % tbuf_col_size)
            IN  IF row < info.numrows /\ data_offset + 1 \in DOMAIN info.data
                THEN info.data[data_offset + 1] ELSE Poison]

\* the (datatype, typesize) pairs lines 2980-3117 translate
Translates(info) ==
    \/ info.datatype = "REAL" /\ info.typesize \in {4, 8}
    \/ info.datatype = "INTEGER" /\ info.typesize \in {1, 2, 4, 8}

\* lines 2980-3117: element i of the translated buffer, as the value it was
\* cast from and the type it was cast to
Translated(info, to) ==
    [i \in 1..info.elements |->
        [to |-> to, from |-> info.datatype,
         bytes |-> SubSeq(info.data, (i - 1) * info.typesize + 1, i * info.typesize)]]

NumLive(hp) == Cardinality({b \in DOMAIN hp : hp[b].st = "live"})

\* lines 2938-3143 after the constructor of the H5FileBuffer h it declares,
\* with the destructor (lines 314-331): the outcome the caller sees
readWith(h, c) ==
    LET swept == DeleteAll(DeleteAll(h.io.heap, h.io.ctx.l1), h.io.ctx.l2)
        base == [status |-> "throw", what |-> h.what, named |-> h.named,
                 phase |-> h.phase, info |-> h.info, opened |-> h.opened,
                 handle_open |-> h.opened, ctx_local |-> h.ctx_local,
                 ctx_released |-> FALSE, leaked |-> NumLive(h.io.heap),
                 meta_found |-> h.meta_found, meta |-> h.meta, src |-> h.src,
                 hdl |-> h.hdl, allocated |-> h.allocated, fetches |-> h.fetches,
                 chunks |-> h.chunks, repo_full |-> h.repo_full, call |-> c]
        \* the H5FileBuffer was constructed: it is destroyed when read is left
        built == [base EXCEPT !.handle_open = FALSE, !.ctx_released = h.ctx_local,
                              !.leaked = NumLive(swept)]
        cols == IF h.info.numcols > 1
                THEN [h.info EXCEPT !.data = ColumnBuffer(h.info, c.col),
                                    !.datasize = h.info.datasize \div h.info.numcols,
                                    !.elements = h.info.elements \div h.info.numcols]
                ELSE h.info
        vals == IF c.valtype = "INTEGER"
                THEN [cols EXCEPT !.data = Translated(cols, "int"),
                                  !.datasize = 4 * cols.elements]
                ELSE IF c.valtype = "REAL"
                THEN [cols EXCEPT !.data = Translated(cols, "double"),
                                  !.datasize = 8 * cols.elements]
                ELSE cols
    IN  [h |-> h,
         out |->
            IF h.what # "" THEN base
            ELSE IF h.info.null
            THEN [built EXCEPT !.what = "failed to read dataset", !.named = TRUE,
                               !.phase = "read"]
            ELSE IF c.valtype \in {"INTEGER", "REAL"} /\ ~Translates(cols)
            THEN [built EXCEPT !.what = "data translation failed", !.named = TRUE,
                               !.phase = "translate",
                               !.info = [vals EXCEPT !.null = TRUE, !.data = <<>>,
                                                     !.datasize = 0]]
            ELSE [built EXCEPT !.status = "ok", !.info = vals]]

\* lines 2938-3143
read(repo, c, supersede) == readWith(H5FileBuffer(repo, c, supersede), c)

\* lines 3148-3170: status is set when it is declared and nowhere else; the
\* catch block logs the exception of the constructor
traverse(repo, url, start_group) ==
    With(H5FileBuffer(repo, [url |-> url, dataset |-> start_group, startrow |-> 0,
                             numrows |-> 0, context |-> FALSE], FALSE),
         LAMBDA h : [h |-> h, status |-> TRUE])

ValTypes == {"DYNAMIC", "INTEGER"}
Cols == {0, 1}

\* the datasets callers ask a resource for: every path of file:///a/x.h5
\* and of s3://bkt/m.h5, the one dataset name the resources share of the
\* others
Datasets(url) ==
    IF url = UrlA THEN Paths
    ELSE IF url = UrlM THEN PathsM
    ELSE {<<"c1">>}

Calls ==
    UNION { [url : {u}, dataset : Datasets(u), valtype : ValTypes, col : Cols,
             startrow : 0..MaxRow, numrows : ALL_ROWS..MaxRow, context : BOOLEAN]
            : u \in Urls }

\* the groups callers start a traverse at
StartGroups(url) ==
    IF url = UrlA THEN { <<"g">>, <<"c1">>, <<"nope">> }
    ELSE IF url = UrlM THEN { <<"h">>, <<"m2">> }
    ELSE { <<"g">> }

VARIABLES
    metaRepo,    \* the metadata repository shared by all reads, oldest first
    out,         \* the outcome of the read that has just ended
    trv          \* the outcome of the traverse that has just ended

rdVars == <<metaRepo, out, trv>>

NoOut == [status |-> "none"]
NoTrv == [url |-> "none"]

\* one call of H5Coro::read from entry to return or throw
H5CoroRead ==
    /\ out = NoOut /\ trv = NoTrv
    /\ \E c \in Calls :
         \E r \in {read(metaRepo, c, FALSE)} :
            /\ out' = r.out
            /\ \E renew \in BOOLEAN :
                  metaRepo' = IF r.h.tried
                              THEN metaStore(metaRepo,
                                             [key |-> r.h.key, meta |-> r.h.meta,
                                              src |-> r.h.src],
                                             r.h.what, renew)
                              ELSE metaRepo
    /\ UNCHANGED <<trv, ioVars>>

\* the caller takes the outcome
ReadReturn ==
    /\ out # NoOut
    /\ out' = NoOut
    /\ UNCHANGED <<metaRepo, trv, ioVars>>

\* one call of H5Coro::traverse from entry to return
H5CoroTraverse ==
    /\ out = NoOut /\ trv = NoTrv
    /\ \E url \in Urls :
         \E start_group \in StartGroups(url) :
            \E r \in {traverse(metaRepo, url, start_group)} :
               /\ trv' = [url |-> url, start_group |-> start_group,
                          status |-> r.status, opened |-> r.h.opened,
                          what |-> r.h.what, phase |-> r.h.phase]
               /\ \E renew \in BOOLEAN :
                     metaRepo' = IF r.h.tried
                                 THEN metaStore(metaRepo,
                                                [key |-> r.h.key, meta |-> r.h.meta,
                                                 src |-> r.h.src],
                                                r.h.what, renew)
                                 ELSE metaRepo
    /\ UNCHANGED <<out, ioVars>>

\* the caller takes the status
TraverseReturn ==
    /\ trv # NoTrv
    /\ trv' = NoTrv
    /\ UNCHANGED <<metaRepo, out, ioVars>>

(***************************************************************************)
(* The two mutexes.  Threads construct H5FileBuffer objects on one shared  *)
(* io_context_t; each step below is one lock, unlock, critical section or  *)
(* backend read of the constructor and of the ioRequest calls it makes.    *)
(* What the caches and the file hold is left open here: a probe may hit or *)
(* miss, a read may come back short, a parser may throw.                   *)
(***************************************************************************)
ThreadIds == {1, 2}
\* ioRequest calls one constructor makes at most
MaxRequests == 2
\* a mutex nobody holds
Unlocked == 0

VARIABLES
    metaMutex,   \* H5FileBuffer::metaMutex: the thread that holds it, or Unlocked
    mut,         \* ioContext->mut: the thread that holds it, or Unlocked
    thread       \* per thread: where it is, ioRequest's buffer != NULL, calls left

lkVars == <<metaMutex, mut, thread>>

NewThread == [at |-> "ctor", buffer |-> FALSE, left |-> MaxRequests]

Goto(t, where) == thread' = [thread EXCEPT ![t].at = where]

\* line 239
ctorMetaLock(t) ==
    /\ thread[t].at = "ctor" /\ metaMutex = Unlocked
    /\ metaMutex' = t
    /\ Goto(t, "metaFind")
    /\ UNCHANGED mut

\* lines 240-245: metaRepo.find and the comparison of the url
ctorMetaFind(t) ==
    /\ thread[t].at = "metaFind"
    /\ Goto(t, "metaUnlock")
    /\ UNCHANGED <<metaMutex, mut>>

\* line 246, then into the try block of line 249
ctorMetaUnlock(t) ==
    /\ thread[t].at = "metaUnlock"
    /\ metaMutex' = Unlocked
    /\ Goto(t, "try")
    /\ UNCHANGED mut

\* lines 249-283: parseDataset, readSuperblock, readObjHdr and readDataset
\* call ioRequest, throw, or come to the end of readDataset
tryCall(t) ==
    /\ thread[t].at = "try" /\ thread[t].left > 0
    /\ thread' = [thread EXCEPT ![t] = [at |-> "ioLock", buffer |-> FALSE, left |-> @.left - 1]]
    /\ UNCHANGED <<metaMutex, mut>>

tryThrow(t) ==
    /\ thread[t].at = "try"
    /\ Goto(t, "catch")
    /\ UNCHANGED <<metaMutex, mut>>

tryEnd(t) ==
    /\ thread[t].at = "try"
    /\ Goto(t, "addLock")
    /\ UNCHANGED <<metaMutex, mut>>

\* line 440
ioRequestLock(t) ==
    /\ thread[t].at = "ioLock" /\ mut = Unlocked
    /\ mut' = t
    /\ Goto(t, "ioCheck")
    /\ UNCHANGED metaMutex

\* lines 441-450: the probe of L1 and L2
ioRequestCheck(t) ==
    /\ thread[t].at = "ioCheck"
    /\ \E hit \in BOOLEAN :
         thread' = [thread EXCEPT ![t].at = "ioUnlock", ![t].buffer = hit]
    /\ UNCHANGED <<metaMutex, mut>>

\* ioRequestUnlock leaving the mutex locked when the probe missed
ioRequestUnlockOnHit(t) ==
    /\ thread[t].at = "ioUnlock"
    /\ mut' = IF thread[t].buffer THEN Unlocked ELSE mut
    /\ Goto(t, IF thread[t].buffer THEN "try" ELSE "ioRead")
    /\ UNCHANGED metaMutex

\* line 451, then line 454: a hit returns, a miss goes on to read
ioRequestUnlock(t) ==
    /\ thread[t].at = "ioUnlock"
    /\ mut' = Unlocked
    /\ Goto(t, IF thread[t].buffer THEN "try" ELSE "ioRead")
    /\ UNCHANGED metaMutex

\* lines 457-466: the backend read; it throws (in ioRead or at line 465) or
\* goes on to the insertion
ioRead(t) ==
    /\ thread[t].at = "ioRead"
    /\ \E thrown \in BOOLEAN :
         Goto(t, IF thrown THEN "catch" ELSE "ioLock2")
    /\ UNCHANGED <<metaMutex, mut>>

\* line 468
ioRequestLock2(t) ==
    /\ thread[t].at = "ioLock2" /\ mut = Unlocked
    /\ mut' = t
    /\ Goto(t, "ioAdd")
    /\ UNCHANGED metaMutex

\* lines 469-493: eviction, add and the counters
ioRequestAdd(t) ==
    /\ thread[t].at = "ioAdd"
    /\ Goto(t, "ioUnlock2")
    /\ UNCHANGED <<metaMutex, mut>>

\* line 494, then the return of lines 497-505
ioRequestUnlock2(t) ==
    /\ thread[t].at = "ioUnlock2"
    /\ mut' = Unlocked
    /\ Goto(t, "try")
    /\ UNCHANGED metaMutex

\* line 286
ctorAddLock(t) ==
    /\ thread[t].at = "addLock" /\ metaMutex = Unlocked
    /\ metaMutex' = t
    /\ Goto(t, "metaAdd")
    /\ UNCHANGED mut

\* lines 287-296: eviction from and add to the repository
ctorMetaAdd(t) ==
    /\ thread[t].at = "metaAdd"
    /\ Goto(t, "addUnlock")
    /\ UNCHANGED <<metaMutex, mut>>

\* line 297: the constructor returns
ctorAddUnlock(t) ==
    /\ thread[t].at = "addUnlock"
    /\ metaMutex' = Unlocked
    /\ Goto(t, "done")
    /\ UNCHANGED mut

\* lines 299-308: the constructor rethrows
ctorCatch(t) ==
    /\ thread[t].at = "catch"
    /\ Goto(t, "thrown")
    /\ UNCHANGED <<metaMutex, mut>>

\* the thread constructs its next H5FileBuffer
ctorAgain(t) ==
    /\ thread[t].at \in {"done", "thrown"}
    /\ thread' = [thread EXCEPT ![t] = NewThread]
    /\ UNCHANGED <<metaMutex, mut>>

InitLock ==
    /\ metaMutex = Unlocked
    /\ mut = Unlocked
    /\ thread = [t \in ThreadIds |-> NewThread]

(***************************************************************************)
(* Specifications                                                          *)
(***************************************************************************)
InitCalls(rs) ==
    /\ ioContext = EmptyContext
    /\ ctxLive = TRUE
    /\ heap = <<>>
    /\ readers = rs
    /\ pc = [r \in ReaderIds |-> "idle"]
    /\ rq = [r \in ReaderIds |-> NoRq]
    /\ entry = [r \in ReaderIds |-> NoEntry]
    /\ buffer = [r \in ReaderIds |-> NullBuffer]
    /\ res = [r \in ReaderIds |-> NoRes]
    /\ metaRepo = <<>>
    /\ out = NoOut
    /\ trv = NoTrv
    /\ InitLock

\* one entry of a chunk B-tree node run on its own, before any call
InitInclusionAlone == InitCalls({}) /\ InitInclusion
\* a descent run on its own, before any call
InitDescentAlone == InitCalls({}) /\ InitDescent
\* the fill loop run on its own, before any call
InitFillAlone == InitCalls({}) /\ InitFill
\* the column translation run on its own, before any call
InitColumnAlone == InitCalls({}) /\ InitColumn
\* an ArcticDEMRaster object run on its own, before any call
InitSampleAlone == InitCalls({}) /\ InitSample
\* the state before any call, with no unit being run
InitIOWith(rs) == InitCalls(rs) /\ unit = NoUnit

NextIO ==
    \/ \E r \in ReaderIds : ioRequestLookup(r) /\ UNCHANGED <<rdVars, lkVars, unit>>
    \/ \E r \in ReaderIds : ioRequestRead(r) /\ UNCHANGED <<rdVars, lkVars, unit>>
    \/ \E r \in ReaderIds : ioRequestInsert(r) /\ UNCHANGED <<rdVars, lkVars, unit>>
    \/ \E r \in ReaderIds : readByteArray(r) /\ UNCHANGED <<rdVars, lkVars, unit>>
    \/ ioContextDestroy /\ UNCHANGED <<rdVars, lkVars, unit>>

NextRead ==
    \/ H5CoroRead /\ UNCHANGED <<lkVars, unit>>
    \/ ReadReturn /\ UNCHANGED <<lkVars, unit>>
    \/ H5CoroTraverse /\ UNCHANGED <<lkVars, unit>>
    \/ TraverseReturn /\ UNCHANGED <<lkVars, unit>>

NextLock ==
    \/ \E t \in ThreadIds : ctorMetaLock(t) /\ UNCHANGED <<ioVars, rdVars, unit>>
    \/ \E t \in ThreadIds : ctorMetaFind(t) /\ UNCHANGED <<ioVars, rdVars, unit>>
    \/ \E t \in ThreadIds : ctorMetaUnlock(t) /\ UNCHANGED <<ioVars, rdVars, unit>>
    \/ \E t \in ThreadIds : tryCall(t) /\ UNCHANGED <<ioVars, rdVars, unit>>
    \/ \E t \in ThreadIds : tryThrow(t) /\ UNCHANGED <<ioVars, rdVars, unit>>
    \/ \E t \in ThreadIds : tryEnd(t) /\ UNCHANGED <<ioVars, rdVars, unit>>
    \/ \E t \in ThreadIds : ioRequestLock(t) /\ UNCHANGED <<ioVars, rdVars, unit>>
    \/ \E t \in ThreadIds : ioRequestCheck(t) /\ UNCHANGED <<ioVars, rdVars, unit>>
    \/ \E t \in ThreadIds : ioRequestUnlock(t) /\ UNCHANGED <<ioVars, rdVars, unit>>
    \/ \E t \in ThreadIds : ioRead(t) /\ UNCHANGED <<ioVars, rdVars, unit>>
    \/ \E t \in ThreadIds : ioRequestLock2(t) /\ UNCHANGED <<ioVars, rdVars, unit>>
    \/ \E t \in ThreadIds : ioRequestAdd(t) /\ UNCHANGED <<ioVars, rdVars, unit>>
    \/ \E t \in ThreadIds : ioRequestUnlock2(t) /\ UNCHANGED <<ioVars, rdVars, unit>>
    \/ \E t \in ThreadIds : ctorAddLock(t) /\ UNCHANGED <<ioVars, rdVars, unit>>
    \/ \E t \in ThreadIds : ctorMetaAdd(t) /\ UNCHANGED <<ioVars, rdVars, unit>>
    \/ \E t \in ThreadIds : ctorAddUnlock(t) /\ UNCHANGED <<ioVars, rdVars, unit>>
    \/ \E t \in ThreadIds : ctorCatch(t) /\ UNCHANGED <<ioVars, rdVars, unit>>
    \/ \E t \in ThreadIds : ctorAgain(t) /\ UNCHANGED <<ioVars, rdVars, unit>>

\* the units run on their own
NextInclusion == CheckInclusion /\ UNCHANGED <<ioVars, rdVars, lkVars>>
\* calls of ArcticDEMRaster::sample, one after the other
NextSample ==
    \/ sample /\ UNCHANGED <<ioVars, rdVars, lkVars>>
    \/ findNewRaster /\ UNCHANGED <<ioVars, rdVars, lkVars>>
    \/ readRaster /\ UNCHANGED <<ioVars, rdVars, lkVars>>
\* the column translation, one row at a time
NextColumn ==
    \/ columnCopy /\ UNCHANGED <<ioVars, rdVars, lkVars>>
    \/ columnSwitch /\ UNCHANGED <<ioVars, rdVars, lkVars>>
\* the fill loop, one turn at a time
NextFill == fillStep /\ UNCHANGED <<ioVars, rdVars, lkVars>>
\* the descent, one loop turn at a time
NextDescent ==
    \/ readMessagesStep /\ UNCHANGED <<ioVars, rdVars, lkVars>>
    \/ readIndirectBlockStep /\ UNCHANGED <<ioVars, rdVars, lkVars>>
    \/ readSymbolTableMsgDown /\ UNCHANGED <<ioVars, rdVars, lkVars>>
    \/ readSymbolTableMsgWalk /\ UNCHANGED <<ioVars, rdVars, lkVars>>
    \/ readSymbolTableStep /\ UNCHANGED <<ioVars, rdVars, lkVars>>

vars == <<ioVars, rdVars, lkVars, unit>>

\* N readers sharing one IOContext
SpecIO == InitIOWith(ReaderIds) /\ [][NextIO]_vars
\* one reader
SpecSerial == InitIOWith({1}) /\ [][NextIO]_vars
\* public reads, one after the other, sharing the metadata repository
SpecRead == InitIOWith({}) /\ [][NextRead]_vars
\* threads constructing H5FileBuffer objects on one shared context
SpecLock == InitIOWith({}) /\ [][NextLock]_vars
\* the inclusion test of the chunk B-tree on every small row range and key pair
SpecInclusion == InitInclusionAlone /\ [][NextInclusion]_vars
\* the descent along every short path on the files of the descent
SpecDescent == InitDescentAlone /\ [][NextDescent]_vars
\* the fill loop on every small fill size and buffer size
SpecFill == InitFillAlone /\ [][NextFill]_vars
\* the column translation on every small shape of data and every column
SpecColumn == InitColumnAlone /\ [][NextColumn]_vars
\* an ArcticDEMRaster object sampled at every point of the plane
SpecSample == InitSampleAlone /\ [][NextSample]_vars
(***************************************************************************)
(* Claims about the ranged I/O cache                                       *)
(***************************************************************************)
Range(seq) == {seq[i] : i \in DOMAIN seq}

\* C1: with one reader and an unchanging file, every ioRequest that
\* succeeds hands the caller exactly the file bytes [pos, pos+size), the
\* bytes a replay without cache reads from the backend, and a hit is only
\* taken from an entry that contains [pos, pos+size).
C1_CacheTransparent ==
    \A r \in readers :
        res[r].ok =>
            /\ res[r].bytes = BackendRead(IOFile, res[r].pos, res[r].size)
            /\ Len(res[r].bytes) = res[r].size
            /\ res[r].hit # NoEntry =>
                  /\ res[r].hit.pos <= res[r].pos
                  /\ res[r].pos + res[r].size <= res[r].hit.pos + res[r].hit.size

\* a request served from the inside of a larger cached entry
C1_Witness ==
    \E r \in readers :
        /\ res[r].ok /\ res[r].size > 0
        /\ res[r].hit # NoEntry /\ res[r].hit.pos < res[r].pos

\* C2: with N readers on one shared IOContext every reader's result equals
\* the serial result (the file bytes), no reader reads through a pointer
\* whose buffer another reader's eviction has freed, and no buffer is freed
\* twice.
C2_ConcurrentReadersSafe ==
    /\ \A r \in readers :
          res[r].ok => /\ ~res[r].uaf
                       /\ res[r].bytes = BackendRead(IOFile, res[r].pos, res[r].size)
    /\ \A b \in DOMAIN heap : heap[b].frees <= 1

CacheKeys(cache) == {e.pos : e \in Range(cache)}
FreedBy(hp, hp2) == {b \in DOMAIN hp : hp[b].st = "live" /\ hp2[b].st = "freed"}

\* what one insertion does to one cache: when the cache was full exactly one
\* entry left it and exactly that entry's buffer was freed, otherwise no
\* entry left and nothing was freed
EvictsOne(old, new, cap, freed) ==
    IF Len(old) >= cap
    THEN \E e \in Range(old) :
            /\ freed = {e.data}
            /\ CacheKeys(old) \ CacheKeys(new) \subseteq {e.pos}
            /\ e \notin Range(new)
    ELSE /\ freed = {}
         /\ CacheKeys(old) \subseteq CacheKeys(new)

InsertStep == ioContext'.read_rqsts = ioContext.read_rqsts + 1

\* C7: neither cache ever holds more entries than its capacity, and an
\* insertion into a full cache removes exactly one entry and frees exactly
\* that entry's buffer, while an insertion into a cache that is not full
\* frees nothing.
C7_EvictionBound ==
    /\ [](/\ Len(ioContext.l1) <= IO_CACHE_L1_ENTRIES
          /\ Len(ioContext.l2) <= IO_CACHE_L2_ENTRIES)
    /\ [][InsertStep =>
            \/ /\ ioContext'.l2 = ioContext.l2
               /\ EvictsOne(ioContext.l1, ioContext'.l1, IO_CACHE_L1_ENTRIES,
                            FreedBy(heap, heap'))
            \/ /\ ioContext'.l1 = ioContext.l1
               /\ EvictsOne(ioContext.l2, ioContext'.l2, IO_CACHE_L2_ENTRIES,
                            FreedBy(heap, heap'))]_vars

\* an insertion has evicted from a full L1: L1 is at capacity and one of the
\* buffers has been freed
C7_Witness ==
    /\ Len(ioContext.l1) = IO_CACHE_L1_ENTRIES
    /\ ctxLive
    /\ \E b \in DOMAIN heap : heap[b].st = "freed" /\ Len(heap[b].data) <= IO_CACHE_L1_LINESIZE
                              /\ Len(heap[b].data) > 0

Owners(b) ==
    Cardinality({i \in DOMAIN ioContext.l1 : ioContext.l1[i].data = b})
  + Cardinality({i \in DOMAIN ioContext.l2 : ioContext.l2[i].data = b})

\* C8: every buffer ioRequest allocated is, once the request has returned
\* or thrown, owned by exactly one cache entry or freed, and it is freed
\* exactly once (by eviction or by the destructor of the IOContext).
C8_BuffersOwnedOrFreed ==
    \A b \in DOMAIN heap :
        \/ \E r \in readers : pc[r] = "insert" /\ entry[r].data = b
        \/ heap[b].st = "live" /\ Owners(b) = 1 /\ heap[b].frees = 0
        \/ heap[b].st = "freed" /\ Owners(b) = 0 /\ heap[b].frees = 1

(***************************************************************************)
(* Claims about the public read                                            *)
(***************************************************************************)
Ended == out # NoOut

\* the stored bytes of rows [startrow, startrow + numrows) of s, of column
\* col where s has more than one column
RowsOf(s, startrow, numrows, col) ==
    LET cols     == IF Len(s.dims) > 1 THEN s.dims[2] ELSE 1
        row_size == s.typesize * cols
    IN  IF cols > 1
        THEN [k \in 1..(numrows * s.typesize) |->
                 s.data[(startrow + ((k - 1) \div s.typesize)) * row_size
                        + col * s.typesize + ((k - 1) % s.typesize) + 1]]
        ELSE SubSeq(s.data, startrow * row_size + 1, (startrow + numrows) * row_size)

\* the read was not served from metadata memoized for another resource
OwnMeta == out.meta_found => out.src = out.call.url

\* C3: for a stored contiguous, compact or chunked dataset and every
\* (start_row, num_rows) with 0 <= start_row <= start_row + num_rows <= dim0,
\* num_rows = 0 and start_row = dim0 included, the public read succeeds and
\* returns exactly the stored bytes of the rows asked for.
C3_RowsReadBack ==
    Ended =>
        \A s \in Stored :
            (/\ out.call.url = s.url
             /\ out.call.dataset = s.dataset
             /\ out.call.valtype = "DYNAMIC"
             /\ OwnMeta
             /\ out.call.numrows >= 0
             /\ out.call.startrow + out.call.numrows <= s.dims[1])
            => /\ out.status = "ok"
               /\ out.info.data = RowsOf(s, out.call.startrow, out.call.numrows,
                                         out.call.col)

\* the same with at least one row asked for
NonEmptyRowsReadBack ==
    Ended =>
        \A s \in Stored :
            (/\ out.call.url = s.url
             /\ out.call.dataset = s.dataset
             /\ out.call.valtype = "DYNAMIC"
             /\ OwnMeta
             /\ out.call.numrows > 0
             /\ out.call.startrow + out.call.numrows <= s.dims[1])
            => /\ out.status = "ok"
               /\ out.info.data = RowsOf(s, out.call.startrow, out.call.numrows,
                                         out.call.col)

\* C4: a read returns data only when every component of the dataset path
\* was matched (the level reached equals the number of components); it
\* never returns the data of an object that matched a proper prefix of the
\* path only.
C4_DataOnlyWhenResolved ==
    (Ended /\ out.status = "ok" /\ ~out.meta_found)
        => out.hdl = Len(out.call.dataset)

\* C5: a lookup in the metadata repository is a hit only if the entry was
\* memoized for the full url of the request: a request is never served from
\* the metadata memoized by a request for another resource.
C5_HitOnlyOnSameUrl ==
    (Ended /\ out.meta_found) => out.src = out.call.url

\* the entries of the repository are the metadata a parse of their dataset
\* in their resource ends with, without error
WrittenByParse(e) ==
    \E st \in {parse(Store(e.src), Tail(e.meta.url), e.meta.url)} :
        st.err = "" /\ st.meta = e.meta

ThrowsInConstructor(o) ==
    o # NoOut /\ o.status = "throw" /\ o.phase \in {"parse", "dataset"}

\* C6: every entry of the metadata repository was written by a read whose
\* parse completed without error, and a read that throws during the parse
\* or during the dataset read adds no entry to the repository and changes
\* none.
C6_RepoWrittenAfterParse ==
    /\ [](\A i \in DOMAIN metaRepo : WrittenByParse(metaRepo[i]))
    /\ [][ThrowsInConstructor(out') => metaRepo' = metaRepo]_vars

\* a read that threw while parsing a dataset the repository does not hold,
\* with entries of earlier reads in the repository
C6_Witness ==
    /\ ThrowsInConstructor(out)
    /\ ~out.meta_found
    /\ metaRepo # <<>>
    /\ \A i \in DOMAIN metaRepo : metaRepo[i].meta.url # out.meta.url

\* C9: when a read fails after the resource was opened, the caller finds
\* the output buffer freed (no data, datasize 0), the IOContext created for
\* this read released, the resource handle closed and the dataset name in
\* the message.
C9_FailureCleansUp ==
    (Ended /\ out.status = "throw" /\ out.opened)
        => /\ out.info.null
           /\ out.info.datasize = 0
           /\ out.ctx_local => out.ctx_released
           /\ ~out.handle_open
           /\ out.named

\* the number of rows readDataset works with
RowsAsked(o) ==
    IF o.call.numrows = ALL_ROWS
    THEN (IF o.meta.ndims > 0 THEN o.meta.dimensions[1] ELSE 0)
    ELSE o.call.numrows

\* the read came to readDataset with metadata that has a datatype, and asks
\* for rows past the first dimension
PastLastRow(o) ==
    /\ o # NoOut
    /\ o.phase \in {"dataset", "read", "translate", "done"}
    /\ o.meta.typesize > 0
    /\ o.meta.ndims > 0
    /\ o.call.startrow + RowsAsked(o) > o.meta.dimensions[1]

\* C10: a read with start_row + num_rows > dimensions[0], num_rows being
\* dimensions[0] where ALL_ROWS was passed, fails with the out-of-range
\* error before an output buffer is allocated, returns no data and leaves
\* the metadata repository as it was.
C10_RowsOutOfRange ==
    /\ [](PastLastRow(out) =>
            /\ out.status = "throw"
            /\ out.what = "read exceeds number of rows"
            /\ ~out.allocated
            /\ out.info.null /\ out.info.datasize = 0)
    /\ [][PastLastRow(out') => metaRepo' = metaRepo]_vars

\* all rows asked for from a start row other than 0, with entries in the
\* repository
C10_Witness ==
    /\ PastLastRow(out)
    /\ out.call.numrows = ALL_ROWS
    /\ out.call.startrow > 0
    /\ metaRepo # <<>>

(***************************************************************************)
(* Claims about column selection, traverse, filters, links and fill values *)
(***************************************************************************)
\* the read of a stored dataset with more than one column, one column in
\* range asked for, untranslated, parsed from its own file, rows in range
ColumnRead(s) ==
    /\ Ended
    /\ out.call.url = s.url /\ out.call.dataset = s.dataset
    /\ Len(s.dims) > 1 /\ s.dims[2] > 1
    /\ out.call.col >= 0 /\ out.call.col < s.dims[2]
    /\ out.call.valtype = "DYNAMIC" /\ OwnMeta
    /\ out.call.numrows >= 0
    /\ out.call.startrow + out.call.numrows <= s.dims[1]

\* the output holds element [start_row + i][col] of every row asked for
ColumnReadBack(s) ==
    /\ out.status = "ok"
    /\ Len(out.info.data) = (out.call.numrows * s.typesize * s.dims[2]) \div s.dims[2]
    /\ out.info.datasize = Len(out.info.data)
    /\ \A i \in 0..(out.call.numrows - 1) :
          SubSeq(out.info.data, i * s.typesize + 1, (i + 1) * s.typesize)
            = SubSeq(s.data,
                     ((out.call.startrow + i) * s.dims[2] + out.call.col) * s.typesize + 1,
                     ((out.call.startrow + i) * s.dims[2] + out.call.col + 1) * s.typesize)

\* C11: for a dataset with cols > 1 and a requested column c, 0 <= c < cols,
\* the public read returns buffer_size / cols bytes, one element per row,
\* element i being original[start_row + i][c] for every i in [0, num_rows).
C11_ColumnReadBack ==
    \A s \in Stored : ColumnRead(s) => ColumnReadBack(s)

\* the same with at least one row asked for
NonEmptyColumnReadBack ==
    \A s \in Stored : (ColumnRead(s) /\ out.call.numrows > 0) => ColumnReadBack(s)

\* the file was opened and the walk to the group ended without an error
Traversed == trv.opened /\ trv.what = ""

\* C12: traverse(url, start_group) returns true exactly when the file was
\* opened and the walk to the group completed without error, and false when
\* opening or walking raised an error.
C12_TraverseStatus ==
    trv # NoTrv => (trv.status <=> Traversed)

\* the filter ids the writer listed in the Filter message of a dataset
WrittenFilters ==
    { [url |-> UrlA, dataset |-> <<"k1">>, filters |-> {SHUFFLE_FILTER, DEFLATE_FILTER}],
      [url |-> UrlA, dataset |-> <<"bf">>, filters |-> {9}],
      [url |-> UrlM, dataset |-> <<"fl">>, filters |-> {3}] }

\* the read got as far as readDataset: the parse ended without an error
Parsed == Ended /\ out.phase \in {"dataset", "read", "translate", "done"}

\* C13: if the Filter message of the target dataset lists a filter id other
\* than DEFLATE or SHUFFLE the read fails and returns no data, and after a
\* successful parse the only filter flags set in the metadata are DEFLATE
\* and SHUFFLE.
C13_OnlyDeflateShuffle ==
    /\ \A w \in WrittenFilters :
          (/\ Ended /\ out.call.url = w.url /\ out.call.dataset = w.dataset
           /\ OwnMeta
           /\ ~(w.filters \subseteq {DEFLATE_FILTER, SHUFFLE_FILTER}))
          => out.status = "throw" /\ out.info.data = <<>>
    /\ (Parsed /\ ~out.meta_found)
          => out.meta.filter \subseteq {DEFLATE_FILTER, SHUFFLE_FILTER}

\* the paths whose last component names a soft link, an external link or a
\* symbol table entry of cache type 2; each refers to a dataset
NotHardLinked ==
    { [url |-> UrlA, dataset |-> <<"s1">>],
      [url |-> UrlA, dataset |-> <<"e1">>],
      [url |-> UrlM, dataset |-> <<"h", "sy">>] }

\* C14: the descent advances only through hard links: a soft or external
\* Link message or a symbol table entry of cache type 2 whose name is the
\* current path component never has the object it refers to parsed nor the
\* level advanced.
C14_OnlyHardLinksFollowed ==
    \A l \in NotHardLinked :
        (Ended /\ out.call.url = l.url /\ out.call.dataset = l.dataset /\ ~out.meta_found)
        => /\ out.hdl = Len(l.dataset) - 1
           /\ out.meta.typesize = 0 /\ out.meta.ndims = 0
           /\ out.status = "throw"

\* the read of a path that ends in a soft link has ended at level 0
C14_Witness ==
    /\ Ended /\ out.call.url = UrlA /\ out.call.dataset = <<"s1">>
    /\ out.opened /\ ~out.meta_found /\ out.hdl = 0 /\ out.phase = "dataset"

\* the chunked datasets the writer left chunks of unwritten: rows[r] are
\* the bytes of row r, <<>> where its chunk was never allocated
Sparse ==
    { [url |-> UrlA, dataset |-> <<"u1">>, dims |-> <<3>>, typesize |-> 1,
       fill |-> FillU1, rows |-> << <<41>>, <<42>>, <<>> >>],
      [url |-> UrlM, dataset |-> <<"u2">>, dims |-> <<3>>, typesize |-> 2,
       fill |-> FillU2, rows |-> << <<>>, <<>>, DataU2 >>] }

\* byte i (from 0) of the output of a read of s from row startrow on
FillOrData(s, startrow, i) ==
    LET row == startrow + (i \div s.typesize) + 1
    IN  IF s.rows[row] # <<>> THEN s.rows[row][(i % s.typesize) + 1]
        ELSE s.fill[(i % Len(s.fill)) + 1]

\* C15: when fill_size > 0 and the read returns, every output byte i that no
\* allocated chunk covers equals byte (i mod fill_size) of the fill value,
\* and the bytes a visited chunk covers hold the data of the chunk.
C15_FillTiled ==
    \A s \in Sparse :
        (/\ Ended /\ out.call.url = s.url /\ out.call.dataset = s.dataset
         /\ out.call.valtype = "DYNAMIC" /\ OwnMeta
         /\ out.status = "ok")
        => /\ Len(out.info.data) = out.info.numrows * s.typesize
           /\ out.info.numrows = IF out.call.numrows = ALL_ROWS THEN s.dims[1]
                                  ELSE out.call.numrows
           /\ \A i \in 0..(Len(out.info.data) - 1) :
                 out.info.data[i + 1] = FillOrData(s, out.call.startrow, i)

\* a read that covers an unwritten row and a written row of 2-byte elements
C15_Witness ==
    /\ Ended /\ out.call.url = UrlM /\ out.call.dataset = <<"u2">>
    /\ out.status = "ok" /\ out.call.startrow = 1 /\ out.call.numrows = 2
    /\ out.info.data = FillU2 \o DataU2

(***************************************************************************)
(* Claims about the probe, the eviction order and the backend reads        *)
(***************************************************************************)
Cached == Range(ioContext.l1) \cup Range(ioContext.l2)

\* C16: the probe of a request hits if and only if an entry stored in the
\* cache covers [pos, pos+size): a request for at least one byte misses
\* (and reads the backend) only when no entry of L1 or L2 covers it,
\* whichever line the covering entry starts in and whatever smaller entry
\* lies nearer to pos, and a request hits only on an entry that covers it.
C16_ProbeFindsCover ==
    \A r \in readers :
        /\ (pc[r] = "miss" /\ rq[r].size > 0) =>
              ~\E e \in Cached : Covers(e, rq[r].size, rq[r].pos)
        /\ (pc[r] = "ret" /\ buffer[r].hit) =>
              entry[r] \in Cached /\ Covers(entry[r], rq[r].size, rq[r].pos)

\* the cache an entry of this size is inserted into, and its capacity
TargetCache(ctx, e) == IF e.size <= IO_CACHE_L1_LINESIZE THEN ctx.l1 ELSE ctx.l2
TargetEntries(e) ==
    IF e.size <= IO_CACHE_L1_LINESIZE THEN IO_CACHE_L1_ENTRIES ELSE IO_CACHE_L2_ENTRIES

\* the entry of a cache that was inserted first: with one reader the buffers
\* are allocated in the order the entries are inserted
Earliest(cache) ==
    CHOOSE v \in Range(cache) : \A w \in Range(cache) : v.data <= w.data

\* the insertion of reader r's entry, seen as a step
InsertionBy(r) == pc[r] = "insert" /\ pc'[r] = "ret"
\* the probe of reader r's request, seen as a step
ProbeBy(r) == pc[r] = "idle" /\ pc'[r] \in {"ret", "miss"}

ByteRange(pos, n) == pos .. (pos + n - 1)

\* the bytes reader r's backend read has fetched, while r is about to insert
Fetched(r) == ByteRange(entry[r].pos, entry[r].size)

\* C18 (as stated): every backend read lies within the ranges [pos, pos+size)
\* requested so far; for the first read of a context, whose buffer is the
\* only one allocated, that is the range of the request that issued it.
C18_ReadsWithinRequested ==
    \A r \in readers :
        (pc[r] = "insert" /\ Len(heap) = 1) =>
            Fetched(r) \subseteq ByteRange(rq[r].pos, rq[r].size)

\* C18 (amended): every backend read starts at the pos of the request that
\* missed and fetches at least size and at most max(size, hint) bytes: it
\* lies within [pos, pos+max(size, hint)) of that request, and within the
\* requested range [pos, pos+size) when the request carries no hint.
C18_ReadsWithinHint ==
    \A r \in readers :
        pc[r] = "insert" =>
            /\ entry[r].pos = rq[r].pos
            /\ ByteRange(rq[r].pos, rq[r].size) \subseteq Fetched(r)
            /\ Fetched(r) \subseteq ByteRange(rq[r].pos, Max(rq[r].size, rq[r].hint))
            /\ rq[r].hint = 0 => Fetched(r) = ByteRange(rq[r].pos, rq[r].size)

\* a read has fetched bytes beyond the requested range, up to the hint
C18_Witness ==
    \E r \in readers :
        /\ pc[r] = "insert"
        /\ rq[r].hint > rq[r].size
        /\ entry[r].size > rq[r].size

\* reader r's backend read returns fewer than size bytes: the request is for
\* more bytes than the file holds from pos on
ShortRead(r) ==
    pc[r] = "miss" /\ Len(BackendRead(IOFile, rq[r].pos, rq[r].size)) < rq[r].size

\* C19: a missed request whose backend read returns fewer than size bytes
\* fails with an error and leaves the shared state as it was: the step that
\* ends it inserts and evicts nothing in L1 and L2, leaves read_rqsts and
\* bytes_read as they are, and does not advance the caller's cursor.
C19_ShortReadLeavesState ==
    [][\A r \in readers :
         (ShortRead(r) /\ pc'[r] # pc[r]) =>
            /\ pc'[r] = "idle"
            /\ res'[r].threw # "" /\ ~res'[r].ok
            /\ res'[r].advance = 0
            /\ ioContext' = ioContext]_vars

\* a short read has failed on a context that holds entries and counts
C19_Witness ==
    \E r \in readers :
        /\ pc[r] = "idle" /\ res[r].threw = "failed to read"
        /\ ioContext.l1 # <<>> /\ ioContext.read_rqsts > 0

(***************************************************************************)
(* Claims about the two mutexes                                            *)
(***************************************************************************)
\* where a thread is inside a critical section of ioContext->mut
InIoSection == {"ioCheck", "ioUnlock", "ioAdd", "ioUnlock2"}
\* where a thread is inside a critical section of metaMutex
InMetaSection == {"metaFind", "metaUnlock", "metaAdd", "addUnlock"}

\* C20: a thread performs its backend read holding neither the mutex of the
\* io context nor the mutex of the metadata repository; a thread holds a
\* mutex only inside that mutex's critical sections, so both are released
\* on every way out of them (return, miss, throw) and the metadata mutex is
\* not held while the file is parsed and the dataset read.
C20_NoReadUnderLock ==
    \A t \in ThreadIds :
        /\ thread[t].at = "ioRead" => mut # t /\ metaMutex # t
        /\ mut = t <=> thread[t].at \in InIoSection
        /\ metaMutex = t <=> thread[t].at \in InMetaSection

\* one thread is reading the backend while another is inside a critical
\* section of the io context
C20_Witness ==
    \E t \in ThreadIds, u \in ThreadIds :
        /\ t # u
        /\ thread[t].at = "ioRead"
        /\ mut = u /\ thread[u].at = "ioAdd"

(***************************************************************************)
(* Claims about the chunk B-tree walk                                      *)
(***************************************************************************)
\* the key range [k1, k2) and the rows [startrow, startrow + numrows) share a row
Overlaps(k1, k2, startrow, numrows) == k1 < startrow + numrows /\ k2 > startrow

\* C21: in the chunk B-tree walk, a child whose keys satisfy k1 < k2 is
\* visited by a read of num_rows >= 1 rows exactly when its key range
\* [k1, k2) overlaps the rows [startrow, startrow + numrows) of the read: the
\* four clauses of the inclusion test amount to k1 < startrow + numrows and
\* k2 > startrow.
C21_VisitedIffOverlap ==
    (unit.name = "readBTreeV1" /\ unit.done
        /\ unit.child_key1 < unit.child_key2 /\ unit.numrows >= 1) =>
       (unit.visited <=>
            Overlaps(unit.child_key1, unit.child_key2, unit.startrow, unit.numrows))

\* a child lying strictly inside the rows of the read has been visited
C21_Witness ==
    /\ unit.name = "readBTreeV1" /\ unit.done /\ unit.visited
    /\ unit.child_key1 > unit.startrow
    /\ unit.child_key2 < unit.startrow + unit.numrows - 1
    /\ unit.child_key1 < unit.child_key2

\* the read that has ended walked the chunk B-tree of a dataset of one dimension
WalkedChunks1D ==
    /\ Ended /\ out.opened /\ out.phase \in {"done", "dataset"}
    /\ out.meta.layout = "CHUNKED_LAYOUT" /\ out.meta.ndims = 1
    /\ out.meta.typesize > 0 /\ out.meta.elementsize = out.meta.typesize
    /\ out.meta.chunkelements > 0 /\ out.allocated

\* what the spec's formulas give for the chunk at `slice` of that read
ChunkWindow(slice) ==
    LET row_size          == out.meta.typesize
        buffer_size       == out.info.numrows * row_size
        chunk_buffer_size == out.meta.chunkelements * out.meta.typesize
        chunk_offset      == slice[1] * row_size
        buffer_offset     == out.call.startrow * row_size
        buffer_index      == Max(0, chunk_offset - buffer_offset)
        chunk_index       == Max(0, buffer_offset - chunk_offset)
    IN  [buffer_size |-> buffer_size, chunk_buffer_size |-> chunk_buffer_size,
         buffer_index |-> buffer_index, chunk_index |-> chunk_index,
         chunk_bytes |-> Min(chunk_buffer_size - chunk_index, buffer_size - buffer_index)]

InvalidLocation == {"invalid location to read data", "invalid location to read chunk",
                    "no bytes of chunk data to read"}

\* C22: for every leaf chunk visited in the read of a 1-D chunked dataset,
\* the walker uses buffer_index = max(0, chunk_offset - buffer_offset),
\* chunk_index = max(0, buffer_offset - chunk_offset) and chunk_bytes =
\* min(chunk_buffer_size - chunk_index, buffer_size - buffer_index), with
\* 1 <= chunk_bytes, buffer_index + chunk_bytes <= buffer_size and chunk_index
\* + chunk_bytes <= chunk_buffer_size, and no 'invalid location' error is
\* raised.
C22_ChunkWindowInside ==
    WalkedChunks1D =>
        /\ out.what \notin InvalidLocation
        /\ \A k \in DOMAIN out.chunks :
              LET c == out.chunks[k]
                  w == ChunkWindow(c.slice)
              IN  /\ c.buffer_index = w.buffer_index
                  /\ c.chunk_index = w.chunk_index
                  /\ c.chunk_bytes = w.chunk_bytes
                  /\ 1 <= c.chunk_bytes
                  /\ c.buffer_index + c.chunk_bytes <= w.buffer_size
                  /\ c.chunk_index + c.chunk_bytes <= w.chunk_buffer_size

\* the read that has ended returned the rows of a chunked dataset
ChunkedReadDone ==
    /\ Ended /\ out.status = "ok" /\ out.allocated
    /\ out.meta.layout = "CHUNKED_LAYOUT"

\* row size, buffer size and buffer offset of that read (lines 631-650, 728)
RowSizeOf(meta) == meta.typesize * Prod(SubSeq(meta.dimensions, 2, meta.ndims))
BufferSizeOfRead == RowSizeOf(out.meta) * out.info.numrows
BufferOffsetOfRead == RowSizeOf(out.meta) * out.call.startrow
PrefetchDue == BufferOffsetOfRead < BufferSizeOfRead
\* the requests of the read after the prefetch: one per chunk
ChunkFetches == IF PrefetchDue THEN Tail(out.fetches) ELSE out.fetches

MissedReadReturns == out = NoOut /\ out' # NoOut /\ out'.status = "ok" /\ ~out'.meta_found
\* the step is a read that hit the repository
HitReadEnds == out = NoOut /\ out' # NoOut /\ out'.meta_found

\* C24: the metadata repository never holds more than its capacity; after a
\* read that missed the repository has completed successfully the
\* repository holds that read's metadata under its key, and if the
\* repository was full before, exactly one entry, the oldest, was evicted to
\* make room (any other entry that is gone had the key of the new one).
C24_RepoInsertOnMiss ==
    [][/\ Len(metaRepo') <= MAX_META_STORE
       /\ MissedReadReturns =>
            LET key  == metaGetKey(out'.meta.url)
                gone == Range(metaRepo) \ Range(metaRepo')
            IN  /\ \E i \in DOMAIN metaRepo' :
                      metaRepo'[i].key = key /\ metaRepo'[i].meta = out'.meta
                /\ metaIsFull(metaRepo) =>
                      /\ Head(metaRepo) \in gone
                      /\ \A e \in gone : e = Head(metaRepo) \/ e.key = key
                      /\ Len(metaRepo') <= Len(metaRepo)
                /\ ~metaIsFull(metaRepo) => \A e \in gone : e.key = key]_vars

\* a read that missed a full repository has returned, and the repository is
\* full again with the metadata of this read as its newest entry
C24_Witness ==
    /\ Ended /\ out.status = "ok" /\ ~out.meta_found /\ out.repo_full
    /\ Len(metaRepo) = MAX_META_STORE
    /\ metaRepo[Len(metaRepo)].meta = out.meta

\* C27: a read that hits the metadata repository leaves the repository's
\* set of entries unchanged: it evicts no entry, even when the repository
\* is full, and the entry it hit keeps its content.
C27_HitLeavesRepo ==
    [][HitReadEnds => Range(metaRepo') = Range(metaRepo)]_vars

\* the descent has ended: every call returned, or one threw
DescentDone == unit.name = "descent" /\ (unit.err # "" \/ unit.stack = <<>>)

\* C25: within one descent no object header, no node of a group B-tree and
\* no continuation block is parsed a second time.
C25_NoBlockParsedTwice ==
    unit.name = "descent" => unit.again = {}

\* a step of the descent that examines a message of a header, of a
\* continuation block or of a direct block on level d
ExaminesMessageAt(d) ==
    /\ readMessagesStep
    /\ Top.dlvl = d
    /\ Len(unit'.stack) >= Len(unit.stack)
\* a step of the descent that finds the name of level d in a link message or
\* in a symbol
MatchesAt(d) ==
    /\ unit.name = "descent" /\ unit.stack # <<>>
    /\ Top.dlvl = d /\ d < Len(unit.path)
    /\ \/ /\ Top.k \in {"obj", "cont", "dblk"}
          /\ Top.i <= Len(MsgsOf(Top))
          /\ MsgsOf(Top)[Top.i].type = "LINK_MSG"
          /\ MsgsOf(Top)[Top.i].link_type = 0
          /\ MsgsOf(Top)[Top.i].name = unit.path[d + 1]
       \/ /\ Top.k = "syms"
          /\ Top.i <= Len(File.nodes[Top.a].entries[Top.b].symbols)
          /\ File.nodes[Top.a].entries[Top.b].symbols[Top.i].name = unit.path[d + 1]

\* C26: during the descent the level reached (highestDataLevel) never
\* decreases.
C26_NeverDecreases ==
    [][unit.name = "descent" => unit'.highestDataLevel >= unit.highestDataLevel]_vars
\* C26, second part: the level changes only in a step that finds the name of
\* level d, and becomes d + 1.
C26_ChangesOnMatch ==
    [][(unit.name = "descent" /\ unit'.highestDataLevel # unit.highestDataLevel)
        => \E d \in 0..MaxPath : MatchesAt(d) /\ unit'.highestDataLevel = d + 1]_vars
\* C26, third part: the level stays within the number of path components.
C26_WithinPath ==
    unit.name = "descent" => unit.highestDataLevel \in 0..Len(unit.path)
\* C26, last part: no message of a header, of a continuation block or of a
\* direct block is examined on a level the descent has gone beyond.
C26_NoMessageAfterMatch ==
    [][\A d \in 0..MaxPath : ExaminesMessageAt(d) => unit.highestDataLevel <= d]_vars

\* C28: every byte the fill loop writes has an index below buffer_size.
C28_FillInsideBuffer ==
    unit.name = "fill" => \A k \in unit.written : k < unit.buffer_size

\* C29: the column translation copies only from inside the data read: every
\* index it reads lies in [0, datasize).
C29_ColumnInsideSource ==
    unit.name = "column" => \A k \in unit.reads : 0 <= k /\ k < unit.datasize

\* C30: readRaster is entered only with a raster open: rdset is not NULL and
\* the cell size and the block sizes are not zero.
C30_ReadRasterOnOpen ==
    (unit.name = "sample" /\ unit.pc = "readRaster")
        => /\ unit.rdset # NullDataset
           /\ unit.cellsize # 0
           /\ unit.xblocksize # 0 /\ unit.yblocksize # 0
=============================================================================
